---- MODULE Spec2Model ----
(***************************************************************************)
(* relaygo-firebase: the translation path of the Cloud Functions.           *)
(*                                                                          *)
(*   TranslationService       (services/translationService.js)              *)
(*       translate            in-memory cache, retry loop with backoff      *)
(*       translateWithOpenAI  one provider call, failure classification     *)
(*       translateBatch       worker pool over a shared queue               *)
(*   TranslationCacheService  (services/translationCacheService.js)         *)
(*       getTranslation / setTranslation / cleanupExpiredCache on the       *)
(*       Firestore collection translation_cache                             *)
(*   translate endpoint       (endpoints/translate.js)                      *)
(*   sttAndTranslate endpoint (endpoints/sttAndTranslate.js)                *)
(*   onMessageCreate, translateMessage   (index.js)                         *)
(*   stt, tts endpoints       (endpoints)                                   *)
(*   SttService, TtsService   (services/sttService.js, ttsService.js)       *)
(*   onNewChatMessage         (endpoints/pushNotification.js)               *)
(*                                                                          *)
(* Every await of the JavaScript source is a step boundary: an action is    *)
(* the synchronous code that runs from one await to the next.               *)
(*                                                                          *)
(* Ten specifications share the definitions:                                *)
(*   Spec          one TranslationService instance, translate calls         *)
(*   SpecBatch     one translateBatch call on a fresh instance              *)
(*   SpecEndpoint  concurrent requests to the translate endpoint            *)
(*   SpecSweep     cleanupExpiredCache while requests go on                 *)
(*   SpecStt       concurrent requests to the sttAndTranslate endpoint      *)
(*   SpecMessage   deliveries of a message's created-event to               *)
(*                 onMessageCreate and a request to translateMessage        *)
(*   SpecBatchLive SpecBatch with weak fairness of the provider, the        *)
(*                 timers and the workers                                   *)
(*   SpecPush      one delivery of a new chat message to onNewChatMessage   *)
(*   SpecRetry     the retry loops of translate, transcribe and             *)
(*                 generateSpeech under the same provider answers           *)
(*   SpecGateway   requests to translate, sttAndTranslate, stt, tts and     *)
(*                 translateMessage                                         *)
(***************************************************************************)
EXTENDS Integers, Sequences, FiniteSets, TLC

(***************************************************************************)
(* Bounds of the model.                                                     *)
(***************************************************************************)
\* maxRetries is read from MAX_RETRY_ATTEMPTS; the model draws it from 0..MaxRetriesBound
MaxRetriesBound == 2
\* number of clock advances in one behaviour
MaxTicks == 2
\* maxConcurrent is drawn from 0..MaxConcurrentBound
MaxConcurrentBound == 2
\* longest list of target variants handed to translateBatch
MaxTargets == 3
\* requests to the translate endpoint in one behaviour
MaxRequests == 2

(***************************************************************************)
(* Program constants.                                                       *)
(***************************************************************************)
\* parseInt(process.env.RETRY_DELAY_MS || '1000')
DefaultRetryDelay == 1000
\* parseInt(process.env.TRANSLATION_CACHE_TTL || '600') * 1000 ms, in seconds
cacheTTL == 600
\* text.substring(0, 50)
KeyPrefixLen == 50
\* this.cacheExpirationDays = 30
cacheExpirationDays == 30
\* 24 * 60 * 60 * 1000 ms, in seconds
DaySeconds == 86400

Min(a, b) == IF a < b THEN a ELSE b

RECURSIVE Pow2(_)
Pow2(n) == IF n <= 0 THEN 1 ELSE 2 * Pow2(n - 1)

(***************************************************************************)
(* Texts are sequences of character codes, language codes are strings.      *)
(* LangChars gives the characters of a language code where the code is      *)
(* concatenated into a key.                                                 *)
(***************************************************************************)
Underscore == <<95>>
Pipe == <<124>>

ShortText == <<1>>
LongA == [i \in 1..KeyPrefixLen |-> 1] \o <<2>>
LongB == [i \in 1..KeyPrefixLen |-> 1] \o <<3>>
Texts == {ShortText, LongA, LongB}

LangChars(lang) ==
    CASE lang = "en"    -> <<101, 110>>
      [] lang = "ja"    -> <<106, 97>>
      [] lang = "ko"    -> <<107, 111>>
      [] lang = "zh-TW" -> <<122, 104, 45, 84, 87>>
      [] lang = "xx"    -> <<120, 120>>
      [] lang = "auto"  -> <<97, 117, 116, 111>>
      [] OTHER          -> <<>>

(***************************************************************************)
(* State.                                                                   *)
(***************************************************************************)
VARIABLES
    now,         \* Date.now(), in seconds
    maxRetries,  \* this.maxRetries
    retryDelay,  \* this.retryDelay
    prompt,      \* the prompt of the code deployed
    cache,       \* this.cache of each TranslationService instance
    calls,       \* the translate calls, by slot
    batch,       \* the translateBatch call
    store,       \* Firestore translation_cache
    reqs,        \* the requests to the translate and sttAndTranslate endpoints
    sweep,       \* the cleanupExpiredCache call
    message,     \* the document chat_rooms/{roomId}/messages/{messageId}
    trigger,     \* the onMessageCreate invocation
    treq,        \* the request to translateMessage
    push,        \* the onNewChatMessage invocation
    users        \* the document users/{receiverId}

(***************************************************************************)
(* Values.                                                                  *)
(***************************************************************************)
\* JavaScript null / undefined
Null == [kind |-> "null"]

\* the prompt translateWithOpenAI builds: the one deployed first and the one
\* a later deployment replaces it with
FirstPrompt == "literal"
NextPrompt == "native"

\* the text the provider answers: a translation of src into lang as the
\* prompt p asks for it, or, when the provider's content is blank, the empty
\* string left by trim()
TranslatedBy(src, lang, p) == [src |-> src, lang |-> lang, blank |-> FALSE, prompt |-> p]
Translated(src, lang) == TranslatedBy(src, lang, FirstPrompt)
Blank == [src |-> <<>>, lang |-> "", blank |-> TRUE, prompt |-> ""]
\* a text handed on as it came, untranslated
Original(src) == [src |-> src, lang |-> "", blank |-> Len(src) = 0, prompt |-> ""]
Output(src, lang, blank, p) == IF blank THEN Blank ELSE TranslatedBy(src, lang, p)

\* JavaScript truthiness of a string: '' is falsy
TruthyText(t) == t # Null /\ ~t.blank

\* the object translateWithOpenAI returns: {text, model, at, tokensUsed, duration}
Result(txt, at) == [kind |-> "result", text |-> txt, at |-> at]

\* what the provider call can fail with: error.status or error.code
ProviderErrors ==
    {"429", "401", "403", "503", "500", "ENOTFOUND", "ECONNREFUSED", "ETIMEDOUT", "400"}
AuthErrors == {"401", "403"}
MalformedErrors == {"400"}
TransientErrors == {"429", "503", "500", "ENOTFOUND", "ECONNREFUSED", "ETIMEDOUT"}

\* translateWithOpenAI's catch: the message of the Error it throws.  The new
\* Error carries the message only; status and code of the provider error are
\* not copied to it.
ErrorMessage(e) ==
    CASE e = "429"                 -> "quota exceeded"
      [] e \in {"401", "403"}      -> "authentication failed"
      [] e \in {"503", "500"}      -> "temporarily unavailable"
      [] e = "ENOTFOUND"           -> "DNS resolution failed"
      [] e = "ECONNREFUSED"        -> "connection refused"
      [] e = "ETIMEDOUT"           -> "request timeout"
      [] OTHER                     -> "OpenAI API error"

\* an Error object: status is what error.status reads
Error(msg, attempts) == [kind |-> "error", message |-> msg, attempts |-> attempts, status |-> "none"]

(***************************************************************************)
(* TranslationService: in-memory cache.  A cache is a function from the     *)
(* keys present to {data, timestamp}.                                       *)
(***************************************************************************)
getCacheKey(text, targetLang) ==
    SubSeq(text, 1, Min(KeyPrefixLen, Len(text))) \o Underscore \o LangChars(targetLang)

MapSet(m, k, v) == [x \in (DOMAIN m) \cup {k} |-> IF x = k THEN v ELSE m[x]]
MapDelete(m, k) == [x \in (DOMAIN m) \ {k} |-> m[x]]
EmptyMap == [x \in {} |-> Null]

\* mutant: an entry read at exactly cacheTTL after its insertion is expired
CacheExpiredAtTTL(entry, t) == t - entry.timestamp >= cacheTTL

\* if (Date.now() - cached.timestamp > this.cacheTTL)

CacheExpired(entry, t) == t - entry.timestamp > cacheTTL

\* getFromCache: the value returned and the cache it leaves
getFromCache(c, key, t) ==
    IF key \notin DOMAIN c THEN [value |-> Null, cache |-> c]
    ELSE IF CacheExpired(c[key], t) THEN [value |-> Null, cache |-> MapDelete(c, key)]
    ELSE [value |-> c[key].data, cache |-> c]

setCache(c, key, data, t) == MapSet(c, key, [data |-> data, timestamp |-> t])

(***************************************************************************)
(* TranslationService.translate, as operators on the record of one call.    *)
(*   pc         idle | calling (the provider call is in flight) |           *)
(*              sleeping (the backoff sleep) | returned | thrown            *)
(*   attempt    the loop variable                                           *)
(*   lastError  the last error caught                                       *)
(*   outcome    the value returned or the error thrown                      *)
(*   invoked    how many times translateWithOpenAI was called               *)
(*   fails      the provider failures of the call, in order                 *)
(*   sleeps     the delays handed to sleep(), in order                      *)
(***************************************************************************)
IdleCall ==
    [pc |-> "idle", svc |-> 1, text |-> <<>>, sourceLang |-> "", targetLang |-> "",
     attempt |-> 0, lastError |-> Null, outcome |-> Null,
     invoked |-> 0, fails |-> <<>>, sleeps |-> <<>>]

\* mutant: the same-language check is missing
SameLanguageNever(sourceLang, targetLang) == FALSE

\* if (sourceLang === targetLang) return null
SameLanguage(sourceLang, targetLang) == sourceLang = targetLang

\* mutant: one retry too few
RetryOneTooFew(attempt, maxR, e) == attempt + 1 < maxR

\* mutant: a timeout is not retried
RetryNoTimeout(attempt, maxR, e) == e # "ETIMEDOUT" /\ attempt < maxR

\* if (attempt < this.maxRetries): the kind of the failure is not looked at
RetryAfterFailure(attempt, maxR, e) == attempt < maxR

\* mutant: the delay does not grow
BackoffDelayFlat(delay, attempt) == delay

\* this.retryDelay * Math.pow(2, attempt)
BackoffDelay(delay, attempt) == delay * Pow2(attempt)

\* throw new Error(`Translation failed after ${maxRetries + 1} attempts: ${lastError.message}`)
ExhaustedError(maxR, lastError) == Error(lastError.message, maxR + 1)

\* translate, from its call to its first await (or to its return): the call
\* record and the cache of the service instance afterwards
translateBegin(svc, text, sourceLang, targetLang, c, t) ==
    LET base == [IdleCall EXCEPT !.svc = svc, !.text = text,
                                 !.sourceLang = sourceLang, !.targetLang = targetLang]
    IN  IF SameLanguage(sourceLang, targetLang)
        THEN [call |-> [base EXCEPT !.pc = "returned", !.outcome = Null], cache |-> c]
        ELSE LET got == getFromCache(c, getCacheKey(text, targetLang), t)
             IN  IF got.value # Null
                 THEN [call |-> [base EXCEPT !.pc = "returned", !.outcome = got.value],
                       cache |-> got.cache]
                 ELSE [call |-> [base EXCEPT !.pc = "calling", !.invoked = 1],
                       cache |-> got.cache]

\* translateWithOpenAI returned: setCache(cacheKey, result); return result
translateSucceeded(call, c, t, blank, p) ==
    LET result == Result(Output(call.text, call.targetLang, blank, p), t)
    IN  [call  |-> [call EXCEPT !.pc = "returned", !.outcome = result],
         cache |-> setCache(c, getCacheKey(call.text, call.targetLang), result, t)]

\* translateWithOpenAI threw: the catch block of the retry loop
translateFailed(call, e, maxR, delay) ==
    LET err == Error(ErrorMessage(e), 0)
        c1  == [call EXCEPT !.lastError = err, !.fails = Append(@, e)]
    IN  IF RetryAfterFailure(call.attempt, maxR, e)
        THEN [c1 EXCEPT !.pc = "sleeping",
                        !.sleeps = Append(@, BackoffDelay(delay, call.attempt))]
        ELSE [c1 EXCEPT !.pc = "thrown", !.outcome = ExhaustedError(maxR, err)]

\* the sleep resolved: attempt++, the next translateWithOpenAI call
translateWoke(call) ==
    [call EXCEPT !.pc = "calling", !.attempt = @ + 1, !.invoked = @ + 1]

CallSettled(call) == call.pc \in {"returned", "thrown"}

(***************************************************************************)
(* TranslationService.translateBatch and worker.                            *)
(*                                                                          *)
(* The batch: pc (idle | running | resolved | rejected), the arguments, the  *)
(* shared queue, the results object, the order in which its keys were set   *)
(* (the order of Object.keys) and the workers.  Worker w awaits the          *)
(* translate call in slot w.  ended[v] records how the translate call for   *)
(* variant v ended: failed | inferred | cached | skipped.                   *)
(***************************************************************************)
Max(a, b) == IF a > b THEN a ELSE b
Slots == 1..Max(Max(MaxConcurrentBound, MaxTargets), MaxRequests)

IdleWorker == [pc |-> "none", lang |-> ""]

IdleBatch ==
    [pc |-> "idle", text |-> <<>>, sourceLang |-> "", targetLangs |-> <<>>,
     maxConcurrent |-> 0, queue |-> <<>>, results |-> EmptyMap, order |-> <<>>,
     workers |-> [w \in Slots |-> IdleWorker], ended |-> EmptyMap]

\* JavaScript truthiness of a language code: '' and undefined are falsy
TruthyLang(lang) == lang # ""

\* mutant: one worker for each target variant
WorkerPerTarget(maxConcurrent, n) == n

\* i < Math.min(maxConcurrent, targetLangs.length); a maxConcurrent of 0
\* stands for every value (0, negative, NaN) that starts no worker
WorkerCount(maxConcurrent, n) == Min(maxConcurrent, n)

\* {error: error.message, at: Timestamp.now()}
ErrorRecord(err, t) == [kind |-> "errorRecord", error |-> err.message, attempts |-> err.attempts, at |-> t]

\* mutant: the error is not caught
workerRethrow(results, lang, err, t) == [results |-> results, rejected |-> TRUE]

\* the catch block of worker: the results afterwards, and whether the
\* error leaves the worker
workerCatch(results, lang, err, t) ==
    [results |-> MapSet(results, lang, ErrorRecord(err, t)), rejected |-> FALSE]

EndedAs(call) ==
    IF call.pc = "thrown" THEN "failed"
    ELSE IF call.outcome = Null THEN "skipped"
    ELSE IF call.invoked = 0 THEN "cached"
    ELSE "inferred"

\* mutant: the worker reads the head of the queue and leaves it there
workerLoopPeek(w, st, t) ==
    LET b == st.batch
    IN  IF Len(b.queue) = 0 \/ ~TruthyLang(Head(b.queue))
        THEN [st EXCEPT !.batch.workers[w] = [pc |-> "done", lang |-> ""]]
        ELSE LET r == translateBegin(1, b.text, b.sourceLang, Head(b.queue), st.cache, t)
             IN  [batch |-> [b EXCEPT !.workers[w] = [pc |-> "awaiting", lang |-> Head(b.queue)]],
                  calls |-> [st.calls EXCEPT ![w] = r.call],
                  cache |-> r.cache]

\* worker, from the head of its while loop to its next await or its return;
\* st is [batch, calls, cache]
workerLoop(w, st, t) ==
    LET b == st.batch
    IN  IF Len(b.queue) = 0
        THEN [st EXCEPT !.batch.workers[w] = [pc |-> "done", lang |-> ""]]
        ELSE LET targetLang == Head(b.queue)
                 b1 == [b EXCEPT !.queue = Tail(@)]
             IN  IF ~TruthyLang(targetLang)
                 THEN [st EXCEPT !.batch = [b1 EXCEPT !.workers[w] = [pc |-> "done", lang |-> ""]]]
                 ELSE LET r == translateBegin(1, b.text, b.sourceLang, targetLang, st.cache, t)
                      IN  [batch |-> [b1 EXCEPT !.workers[w] = [pc |-> "awaiting", lang |-> targetLang]],
                           calls |-> [st.calls EXCEPT ![w] = r.call],
                           cache |-> r.cache]

\* the for loop of translateBatch: each worker(...) call runs to its first await
RECURSIVE spawnWorkers(_, _, _, _)
spawnWorkers(i, n, st, t) ==
    IF i > n THEN st ELSE spawnWorkers(i + 1, n, workerLoop(i, st, t), t)

\* results[targetLang] = ...: a key that is new goes to the end of the keys
KeysAfter(order, lang, results) ==
    IF lang \in DOMAIN results /\ \A i \in 1..Len(order) : order[i] # lang
    THEN Append(order, lang) ELSE order

\* translateBatch from its call to await Promise.all(workers); cs are the
\* translate calls by slot and c is the cache of the instance
batchBegin(text, sourceLang, targetLangs, maxConcurrent, cs, c, t) ==
    LET b0 == [IdleBatch EXCEPT !.pc = "running", !.text = text, !.sourceLang = sourceLang,
                                !.targetLangs = targetLangs, !.maxConcurrent = maxConcurrent,
                                !.queue = targetLangs]
    IN  spawnWorkers(1, WorkerCount(maxConcurrent, Len(targetLangs)),
                     [batch |-> b0, calls |-> cs, cache |-> c], t)

\* worker, resumed by the translate call it awaits
workerResumed(w, st, t) ==
    LET b    == st.batch
        lang == b.workers[w].lang
        call == st.calls[w]
        b1   == [b EXCEPT !.ended = MapSet(@, lang, EndedAs(call))]
    IN  IF call.pc = "returned"
        THEN LET results == IF call.outcome # Null
                            THEN MapSet(b.results, lang, call.outcome) ELSE b.results
             IN  workerLoop(w, [st EXCEPT !.batch =
                     [b1 EXCEPT !.results = results,
                                !.order = KeysAfter(@, lang, results)]], t)
        ELSE LET caught == workerCatch(b.results, lang, call.outcome, t)
             IN  IF caught.rejected
                 THEN [st EXCEPT !.batch = [b1 EXCEPT !.workers[w].pc = "rejected"]]
                 ELSE workerLoop(w, [st EXCEPT !.batch =
                          [b1 EXCEPT !.results = caught.results,
                                     !.order = KeysAfter(@, lang, caught.results)]], t)

(***************************************************************************)
(* TranslationCacheService on the Firestore collection translation_cache.   *)
(* The store is a function from the document ids present to the documents.  *)
(***************************************************************************)
\* sha256(`${text}|${targetLang}`): the digest is taken to be injective and
\* is modelled by the string it is computed from
generateCacheKey(text, targetLang) == text \o Pipe \o LangChars(targetLang)

\* mutant: the expiry is not checked
StoreNeverExpired(doc, t) == FALSE

\* now > createdAt + cacheExpirationDays * 24 * 60 * 60 * 1000
StoreExpired(doc, t) == t > doc.createdAt + cacheExpirationDays * DaySeconds

\* mutant: a document that is there keeps its translatedText
CacheDocKeepFirst(text, targetLang, translatedText, t) ==
    LET key == text \o Pipe \o LangChars(targetLang)
    IN  [text |-> text, targetLang |-> targetLang,
         translatedText |-> IF key \in DOMAIN store THEN store[key].translatedText
                            ELSE translatedText,
         createdAt |-> t, lastAccessedAt |-> t, accessCount |-> 1]

\* the document setTranslation writes
CacheDoc(text, targetLang, translatedText, t) ==
    [text |-> text, targetLang |-> targetLang, translatedText |-> translatedText,
     createdAt |-> t, lastAccessedAt |-> t, accessCount |-> 1]

\* update({lastAccessedAt: serverTimestamp(), accessCount: increment(1)})
TouchDoc(doc, t) == [doc EXCEPT !.lastAccessedAt = t, !.accessCount = @ + 1]

(***************************************************************************)
(* TranslationCacheService.cleanupExpiredCache.  The call:                  *)
(*   pc              idle | query (the get() of the where-query is in       *)
(*                   flight) | commit (batch.commit() is in flight) | done  *)
(*   expirationDate  Date.now() - cacheExpirationDays days, taken at the    *)
(*                   call                                                   *)
(*   expiredDocs     the documents the query answered, by id                *)
(*   returned        the number the call returns                            *)
(***************************************************************************)
IdleSweep == [pc |-> "idle", expirationDate |-> 0, expiredDocs |-> {}, returned |-> 0]

\* from the call to the await of the query's get()
cleanupBegin(t) ==
    [IdleSweep EXCEPT !.pc = "query", !.expirationDate = t - cacheExpirationDays * DaySeconds]

\* where('createdAt', '<', expirationDate).get() settled: a batch delete for
\* every document found, then commit(); or the catch block
cleanupQueried(sw, st, ok) ==
    IF ok
    THEN [sw EXCEPT !.pc = "commit",
                    !.expiredDocs = {k \in DOMAIN st : st[k].createdAt < sw.expirationDate}]
    ELSE [sw EXCEPT !.pc = "done", !.returned = 0]

\* batch.commit() settled: the deletes are by reference, whatever the
\* document holds by then; return expiredDocs.size, or 0 from the catch block
cleanupCommitted(sw, st, ok) ==
    IF ok
    THEN [sweep |-> [sw EXCEPT !.pc = "done", !.returned = Cardinality(sw.expiredDocs)],
          store |-> [k \in (DOMAIN st) \ sw.expiredDocs |-> st[k]]]
    ELSE [sweep |-> [sw EXCEPT !.pc = "done", !.returned = 0],
          store |-> st]

(***************************************************************************)
(* The translate endpoint.  A request:                                      *)
(*   pc      idle | verifying | cacheGet | cacheDelete | cacheUpdate |      *)
(*           translating | cacheSet | done                                  *)
(*   endpoint   translate | sttAndTranslate                                 *)
(*   sourceLang the source language handed to translate: auto in the        *)
(*           translate endpoint (translateText)                             *)
(*   found   the document getTranslation read                               *)
(*   readAt  getTranslation's now, taken when the document was read         *)
(*   prompt  the prompt of the code that serves the request                 *)
(*   cachedTranslation   what getTranslation returned                       *)
(*   status, body   the response                                           *)
(*   trace   what the request touched, in order: durableRead, durableDelete *)
(*           or durableTouch (the update() that counts the access),         *)
(*           memoryRead, inference, memoryWrite, durableWrite               *)
(***************************************************************************)
supportedLanguages == {"zh-TW", "en", "ja", "ko", "vi", "th", "ms", "id"}

IdleRequest ==
    [pc |-> "idle", endpoint |-> "", method |-> "", auth |-> "", form |-> Null,
     text |-> <<>>, sourceLang |-> "", targetLang |-> "",
     found |-> Null, readAt |-> 0, cachedTranslation |-> Null, translatedText |-> Null,
     status |-> 0, body |-> Null, trace |-> <<>>, prompt |-> ""]

Respond(req, status, body) == [req EXCEPT !.pc = "done", !.status = status, !.body = body]

\* the catch block of the endpoint: error.status decides the answer
ErrorResponse(req, error) ==
    IF error.status = "429" THEN Respond(req, 429, [error |-> "Rate limit exceeded"])
    ELSE IF error.status = "401" THEN Respond(req, 500, [error |-> "API configuration error"])
    ELSE Respond(req, 500, [error |-> "Internal server error"])

\* the handler from its start to verifyIdToken
requestBegin(method, auth, text, targetLang) ==
    LET req == [IdleRequest EXCEPT !.endpoint = "translate", !.method = method,
                                   !.auth = auth, !.text = text,
                                   !.sourceLang = "auto", !.targetLang = targetLang]
    IN  IF method = "OPTIONS" THEN Respond(req, 204, Null)
        ELSE IF method # "POST" THEN Respond(req, 405, [error |-> "Method not allowed"])
        ELSE IF auth = "none" THEN Respond(req, 401, [error |-> "Unauthorized"])
        ELSE [req EXCEPT !.pc = "verifying"]

\* verifyIdToken settled: parameter validation, then getTranslation's get()
requestVerified(req) ==
    IF req.auth # "ok" THEN Respond(req, 401, [error |-> "Unauthorized"])
    ELSE IF Len(req.text) = 0 THEN Respond(req, 400, [error |-> "Bad Request"])
    ELSE IF ~TruthyLang(req.targetLang) THEN Respond(req, 400, [error |-> "Bad Request"])
    ELSE IF req.targetLang \notin supportedLanguages THEN Respond(req, 400, [error |-> "Bad Request"])
    ELSE [req EXCEPT !.pc = "cacheGet", !.trace = Append(@, "durableRead")]

\* mutant: a request joins the translate call another request for the same
\* text and target has in flight
requestMissCoalesced(r, req, t) ==
    IF \E s \in (DOMAIN reqs) \ {r} :
           /\ reqs[s].pc = "translating"
           /\ reqs[s].text = req.text /\ reqs[s].targetLang = req.targetLang
    THEN [req   |-> [req EXCEPT !.pc = "translating", !.trace = Append(@, "memoryRead")],
          call  |-> [IdleCall EXCEPT !.svc = r, !.text = req.text, !.sourceLang = req.sourceLang,
                                     !.targetLang = req.targetLang, !.pc = "returned",
                                     !.outcome = Result(Translated(req.text, req.targetLang), t)],
          cache |-> EmptyMap]
    ELSE LET b == translateBegin(r, req.text, req.sourceLang, req.targetLang, EmptyMap, t)
         IN  [req   |-> [req EXCEPT !.pc = "translating",
                                    !.trace = @ \o <<"memoryRead">> \o
                                              (IF b.call.pc = "calling" THEN <<"inference">> ELSE <<>>)],
              call  |-> b.call,
              cache |-> b.cache]

\* mutant: the target language is handed to translate as the source language
requestMissSameLanguage(r, req, t) ==
    LET b == translateBegin(r, req.text, req.targetLang, req.targetLang, EmptyMap, t)
    IN  [req   |-> [req EXCEPT !.pc = "translating",
                               !.trace = @ \o <<"memoryRead">> \o
                                         (IF b.call.pc = "calling" THEN <<"inference">> ELSE <<>>)],
         call  |-> b.call,
         cache |-> b.cache]

\* getTranslation returned null (or ''): new TranslationService(...),
\* translateText(text, targetLang) to its first await; st is [req, call, cache]
requestMiss(r, req, t) ==
    LET b == translateBegin(r, req.text, req.sourceLang, req.targetLang, EmptyMap, t)
    IN  [req   |-> [req EXCEPT !.pc = "translating",
                               !.trace = @ \o <<"memoryRead">> \o
                                         (IF b.call.pc = "calling" THEN <<"inference">> ELSE <<>>)],
         call  |-> b.call,
         cache |-> b.cache]

\* mutant: the answer of getTranslation is not looked at
requestLookedUpIgnored(r, req, cachedTranslation, t) ==
    requestMiss(r, [req EXCEPT !.cachedTranslation = cachedTranslation], t)

\* getTranslation returned: if (cachedTranslation) answer it, else go on
requestLookedUp(r, req, cachedTranslation, t) ==
    LET req1 == [req EXCEPT !.cachedTranslation = cachedTranslation]
    IN  IF TruthyText(cachedTranslation)
        THEN [req   |-> Respond(req1, 200, [translatedText |-> cachedTranslation, cached |-> TRUE]),
              call  |-> IdleCall,
              cache |-> EmptyMap]
        ELSE requestMiss(r, req1, t)

\* mutant: a failed translation falls back to the text and is cached like one
requestTranslatedFallback(req, call) ==
    [req EXCEPT !.pc = "cacheSet",
                !.translatedText = IF call.pc = "returned" /\ call.outcome # Null
                                   THEN call.outcome.text ELSE Original(req.text)]

\* translateText settled: result ? result.text : text, then setTranslation's
\* set(); or the catch block
requestTranslated(req, call) ==
    IF call.pc = "thrown" THEN ErrorResponse(req, call.outcome)
    ELSE [req EXCEPT !.pc = "cacheSet",
                     !.translatedText = IF call.outcome # Null THEN call.outcome.text
                                        ELSE Original(req.text)]

\* mutant: the failure of set() reaches the handler's catch block
requestStoredOrThrown(req, ok) ==
    IF ok
    THEN Respond([req EXCEPT !.trace = Append(@, "durableWrite")],
                 200, [translatedText |-> req.translatedText, cached |-> FALSE])
    ELSE ErrorResponse(req, Error("set failed", 0))

\* setTranslation settled, the failure of its set() caught inside it; then the
\* 200 answer
requestStored(req, ok) ==
    Respond([req EXCEPT !.trace = IF ok THEN Append(@, "durableWrite") ELSE @],
            200, [translatedText |-> req.translatedText, cached |-> FALSE])

(***************************************************************************)
(* The sttAndTranslate endpoint, on the same request record.  form is the   *)
(* multipart body: whether the Content-Type is multipart/form-data, whether *)
(* an audio file is in it, sourceLang and targetLang.  Further values of    *)
(* pc: parsing (parseMultipartFormData) and transcribing (transcribe).      *)
(***************************************************************************)
sttSupportedLanguages ==
    {"zh-TW", "en", "ja", "ko", "vi", "th", "ms", "id", "zh-CN", "es", "fr", "de", "it",
     "pt", "ru", "ar", "hi", "bn", "pa", "jv", "sw", "te", "mr", "ta", "ur"}

\* the handler from its start to verifyIdToken
sttBegin(method, auth, form) ==
    LET req == [IdleRequest EXCEPT !.endpoint = "sttAndTranslate", !.method = method,
                                   !.auth = auth, !.form = form]
    IN  IF method = "OPTIONS" THEN Respond(req, 204, Null)
        ELSE IF method # "POST" THEN Respond(req, 405, [error |-> "Method not allowed"])
        ELSE IF auth = "none" THEN Respond(req, 401, [error |-> "Unauthorized"])
        ELSE [req EXCEPT !.pc = "verifying"]

\* verifyIdToken settled: the Content-Type check, then parseMultipartFormData
sttVerified(req) ==
    IF req.auth # "ok" THEN Respond(req, 401, [error |-> "Unauthorized"])
    ELSE IF ~req.form.multipart THEN Respond(req, 400, [error |-> "Bad Request"])
    ELSE [req EXCEPT !.pc = "parsing"]

\* parseMultipartFormData settled: parameter validation, then transcribe
sttParsed(req, ok) ==
    IF ~ok THEN ErrorResponse(req, Error("parse failed", 0))
    ELSE IF ~req.form.audio THEN Respond(req, 400, [error |-> "Bad Request"])
    ELSE IF ~TruthyLang(req.form.sourceLang) THEN Respond(req, 400, [error |-> "Bad Request"])
    ELSE IF ~TruthyLang(req.form.targetLang) THEN Respond(req, 400, [error |-> "Bad Request"])
    ELSE IF req.form.sourceLang \notin sttSupportedLanguages
         THEN Respond(req, 400, [error |-> "Bad Request"])
    ELSE IF req.form.targetLang \notin sttSupportedLanguages
         THEN Respond(req, 400, [error |-> "Bad Request"])
    ELSE [req EXCEPT !.pc = "transcribing", !.sourceLang = req.form.sourceLang,
                     !.targetLang = req.form.targetLang,
                     !.trace = Append(@, "transcription")]

\* transcribe settled: getTranslation(sttResult.text, targetLang) to its get()
sttTranscribed(req, ok, text) ==
    IF ~ok THEN ErrorResponse(req, Error("Transcription failed", 0))
    ELSE [req EXCEPT !.pc = "cacheGet", !.text = text, !.trace = Append(@, "durableRead")]

\* getTranslation returned: cached = !!translatedText; on a miss
\* new TranslationService(...), translate(sttResult.text, sourceLang,
\* targetLang) to its first await or its return
sttLookedUp(r, req, cachedTranslation, t) ==
    LET req1 == [req EXCEPT !.cachedTranslation = cachedTranslation]
        b    == translateBegin(r, req.text, req.sourceLang, req.targetLang, EmptyMap, t)
    IN  IF TruthyText(cachedTranslation)
        THEN [req   |-> Respond(req1, 200, [translatedText |-> cachedTranslation, cached |-> TRUE]),
              call  |-> IdleCall,
              cache |-> EmptyMap]
        ELSE [req   |-> [req1 EXCEPT !.pc = "translating",
                                     !.trace = @ \o (IF SameLanguage(req.sourceLang, req.targetLang)
                                                     THEN <<>> ELSE <<"memoryRead">>)
                                                 \o (IF b.call.pc = "calling"
                                                     THEN <<"inference">> ELSE <<>>)],
              call  |-> b.call,
              cache |-> b.cache]

\* translate settled: translatedText is the text of the result, or
\* sttResult.text when translate returned null; then setTranslation's set()
sttTranslated(req, call) ==
    IF call.pc = "thrown" THEN ErrorResponse(req, call.outcome)
    ELSE [req EXCEPT !.pc = "cacheSet",
                     !.translatedText = IF call.outcome # Null THEN call.outcome.text
                                        ELSE Original(req.text)]

\* setTranslation settled, the failure of its set() caught inside it; then the
\* 200 answer with cached: false
sttStored(req, ok) ==
    Respond([req EXCEPT !.trace = IF ok THEN Append(@, "durableWrite") ELSE @],
            200, [translatedText |-> req.translatedText, cached |-> FALSE])

(***************************************************************************)
(* The message document and the two functions that translate it             *)
(* (index.js): the trigger onMessageCreate and the endpoint                 *)
(* translateMessage.                                                        *)
(*                                                                          *)
(* The document: messageText, lang, translations (a map by language, order  *)
(* holds its keys in the order of Object.keys), translatedText,             *)
(* translationError, translatedAt.                                          *)
(***************************************************************************)
NewMessage ==
    [messageText |-> ShortText, lang |-> "zh-TW", translations |-> EmptyMap, order |-> <<>>,
     translatedText |-> Null, translationError |-> Null, translatedAt |-> 0]

\* parseInt(process.env.MAX_AUTO_TRANSLATE_LENGTH || '500')
MaxAutoTranslateLength == 500
\* parseInt(process.env.MAX_CONCURRENT_TRANSLATIONS || '2')
DefaultMaxConcurrent == 2

shouldAutoTranslate(text) == Len(text) <= MaxAutoTranslateLength

\* x && x.text: an error record has no text
HasText(x) == x.kind = "result" /\ TruthyText(x.text)

(***************************************************************************)
(* onMessageCreate.  The invocation:                                        *)
(*   pc        idle | users (the two users documents are read) | batch      *)
(*             (translateBatch is awaited) | update (snapshot.ref.update)   *)
(*             | errorUpdate (the update of the catch block) | done         *)
(*   delivery  how many times the created-event was delivered               *)
(*   translated  whether the document held translations when the event was  *)
(*             delivered                                                    *)
(*   snapshot  event.data: the document as it was created                   *)
(*   outcome   skipped | success | failure | rejected                       *)
(*   trace     what the invocation did: inference, write                    *)
(***************************************************************************)
IdleTrigger ==
    [pc |-> "idle", delivery |-> 0, translated |-> FALSE, snapshot |-> NewMessage,
     targetLanguages |-> <<>>,
     translations |-> EmptyMap, order |-> <<>>, translatedText |-> Null,
     outcome |-> "", trace |-> <<>>]

\* messageData.detectedLang || messageData.lang || 'zh-TW'
messageSourceLang(messageData) ==
    IF TruthyLang(messageData.lang) THEN messageData.lang ELSE "zh-TW"

\* the handler from its start to the read of the users documents; the checks
\* read snapshot.data(), the document of the event
onMessageCreateBegin(tr) ==
    LET messageData == tr.snapshot
        t1 == [tr EXCEPT !.delivery = @ + 1, !.targetLanguages = <<>>,
                         !.translations = EmptyMap, !.order = <<>>,
                         !.translatedText = Null, !.outcome = "", !.trace = <<>>]
    IN  IF Len(messageData.messageText) = 0
        THEN [t1 EXCEPT !.pc = "done", !.outcome = "skipped"]
        ELSE IF DOMAIN messageData.translations # {}
        THEN [t1 EXCEPT !.pc = "done", !.outcome = "skipped"]
        ELSE IF ~shouldAutoTranslate(messageData.messageText)
        THEN [t1 EXCEPT !.pc = "done", !.outcome = "skipped"]
        ELSE [t1 EXCEPT !.pc = "users"]

\* the target languages: the receiver's language when it is not the source,
\* and English when neither is English; English alone when the users
\* documents could not be read
targetLanguagesFor(sourceLang, ok, receiverLang) ==
    IF ok
    THEN LET first == IF receiverLang # sourceLang THEN <<receiverLang>> ELSE <<>>
         IN  IF sourceLang # "en" /\ receiverLang # "en" /\ "en" \notin {first[i] : i \in 1..Len(first)}
             THEN Append(first, "en") ELSE first
    ELSE IF sourceLang # "en" THEN <<"en">> ELSE <<>>

\* translatedText: en, then ja, then translations[Object.keys(translations)[0]]
chooseTranslatedText(translations, order) ==
    IF "en" \in DOMAIN translations /\ HasText(translations["en"])
    THEN translations["en"].text
    ELSE IF "ja" \in DOMAIN translations /\ HasText(translations["ja"])
    THEN translations["ja"].text
    ELSE IF Len(order) > 0 /\ HasText(translations[order[1]])
    THEN translations[order[1]].text
    ELSE Null

\* translateBatch resolved: translatedText is chosen, then snapshot.ref.update
onMessageCreateTranslated(tr, b) ==
    [tr EXCEPT !.pc = "update",
               !.translations = b.results,
               !.order = b.order,
               !.translatedText = chooseTranslatedText(b.results, b.order),
               !.trace = IF \E l \in DOMAIN b.ended : b.ended[l] \in {"inferred", "failed"}
                         THEN Append(@, "inference") ELSE @]

\* update({translations, translatedText, translatedAt}): the field
\* translations is replaced as a whole
messageUpdated(doc, tr, t) ==
    [doc EXCEPT !.translations = tr.translations, !.order = tr.order,
                !.translatedText = tr.translatedText, !.translatedAt = t]

\* the update of the catch block: update({translationError: {message, at}})
messageFailed(doc, t) == [doc EXCEPT !.translationError = [message |-> "update failed", at |-> t]]

(***************************************************************************)
(* translateMessage.  The request:                                          *)
(*   pc    idle | verifying | messageGet | roomGet | translating | update   *)
(*         | done                                                           *)
(*   userId        decodedToken.uid                                         *)
(*   messageExists, roomExists   what the documents read will show          *)
(*   messageData   the message document as messageRef.get() read it         *)
(*   roomData      the room document as roomRef.get() read it               *)
(*   translation   what translate returned                                  *)
(*   status, body  the response                                             *)
(*   trace         inference (translate called the provider), messageWrite  *)
(***************************************************************************)
RoomData == [customerId |-> "customer", driverId |-> "driver"]

IdleMessageRequest ==
    [pc |-> "idle", method |-> "", auth |-> "", userId |-> "", targetLang |-> "",
     messageExists |-> TRUE, roomExists |-> TRUE,
     messageData |-> Null, roomData |-> Null, translation |-> Null,
     status |-> 0, body |-> Null, trace |-> <<>>]

\* mutant: every caller passes for a member of the room
isMemberAlways(roomData, userId) == TRUE

\* roomData.customerId === userId || roomData.driverId === userId
isMember(roomData, userId) == roomData.customerId = userId \/ roomData.driverId = userId

\* the slot of the translate call of translateMessage, after the workers'
MessageSlot == DefaultMaxConcurrent + 1

\* the handler from its start to verifyIdToken
translateMessageBegin(i) ==
    LET req == [IdleMessageRequest EXCEPT !.method = i.method, !.auth = i.auth,
                    !.targetLang = i.targetLang, !.messageExists = i.messageExists,
                    !.roomExists = i.roomExists, !.userId = i.userId]
    IN  IF i.method # "POST" THEN Respond(req, 405, [error |-> "Method not allowed"])
        ELSE IF i.auth = "none" THEN Respond(req, 401, [error |-> "Unauthorized"])
        ELSE [req EXCEPT !.pc = "verifying"]

\* verifyIdToken settled: the required fields, then messageRef.get()
translateMessageVerified(req) ==
    IF req.auth # "ok" THEN Respond(req, 401, [error |-> "Unauthorized"])
    ELSE IF ~TruthyLang(req.targetLang) THEN Respond(req, 400, [error |-> "Missing required fields"])
    ELSE [req EXCEPT !.pc = "messageGet"]

\* messageRef.get() settled: then roomRef.get(); a failure goes to the catch
\* block, which answers 500
translateMessageRead(req, doc, ok) ==
    IF ~ok THEN Respond(req, 500, [error |-> "Internal server error"])
    ELSE IF ~req.messageExists THEN Respond(req, 404, [error |-> "Message not found"])
    ELSE [req EXCEPT !.pc = "roomGet", !.messageData = doc]

\* roomRef.get() settled: membership, then a translation that is there for
\* targetLang is answered as cached; else translate(text, sourceLang,
\* targetLang) to its first await; st is [req, call, cache]
translateMessageRoomRead(req, ok, t) ==
    LET messageData == req.messageData
        b == translateBegin(MessageSlot, messageData.messageText, messageSourceLang(messageData),
                            req.targetLang, EmptyMap, t)
        idle == [call |-> IdleCall, cache |-> EmptyMap]
        req1 == [req EXCEPT !.roomData = RoomData]
    IN  IF ~ok
        THEN [req |-> Respond(req, 500, [error |-> "Internal server error"])] @@ idle
        ELSE IF ~req.roomExists
        THEN [req |-> Respond(req, 404, [error |-> "Chat room not found"])] @@ idle
        ELSE IF ~isMember(req1.roomData, req.userId)
        THEN [req |-> Respond(req1, 403, [error |-> "Forbidden"])] @@ idle
        ELSE IF req.targetLang \in DOMAIN messageData.translations
        THEN [req |-> Respond(req1, 200, [success |-> TRUE,
                                          translation |-> messageData.translations[req.targetLang],
                                          cached |-> TRUE])] @@ idle
        ELSE [req |-> [req1 EXCEPT !.pc = "translating",
                                   !.trace = IF b.call.pc = "calling"
                                             THEN Append(@, "inference") ELSE @],
              call |-> b.call, cache |-> b.cache]

\* translate settled: 500 from the catch block, 400 when it returned null,
\* else messageRef.update(updateData)
translateMessageTranslated(req, call) ==
    IF call.pc = "thrown" THEN Respond(req, 500, [error |-> call.outcome.message])
    ELSE IF call.outcome = Null THEN Respond(req, 400, [error |-> "Translation skipped"])
    ELSE [req EXCEPT !.pc = "update", !.translation = call.outcome]

\* updateData: translations.<targetLang> and translatedAt; translatedText for
\* en, and for ja when the document read had no translatedText
translateMessageUpdate(doc, req, t) ==
    LET d1 == [doc EXCEPT !.translations = MapSet(@, req.targetLang, req.translation),
                          !.order = KeysAfter(@, req.targetLang,
                                              MapSet(doc.translations, req.targetLang, req.translation)),
                          !.translatedAt = t]
    IN  IF req.targetLang = "en"
        THEN [d1 EXCEPT !.translatedText = req.translation.text]
        ELSE IF req.targetLang = "ja" /\ ~TruthyText(req.messageData.translatedText)
        THEN [d1 EXCEPT !.translatedText = req.translation.text]
        ELSE d1

\* messageRef.update settled: the 200 answer with cached: false, or 500
translateMessageUpdated(req, ok) ==
    IF ok THEN Respond([req EXCEPT !.trace = Append(@, "messageWrite")],
                       200, [success |-> TRUE, translation |-> req.translation,
                             cached |-> FALSE])
    ELSE Respond(req, 500, [error |-> "Internal server error"])

(***************************************************************************)
(* SttService.transcribe and TtsService.generateSpeech, on the call record  *)
(* of translate: text and targetLang hold generateSpeech's text and the     *)
(* language of either.  transcribeWithWhisper and generateWithOpenAI        *)
(* rethrow the provider's error as it came.                                 *)
(***************************************************************************)
\* 25 * 1024 * 1024
MaxAudioSize == 26214400

\* the provider's error object
RawError(e) == [Error(e, 0) EXCEPT !.status = e]

\* transcribe, from its call to its first await, or to its throw
transcribeBegin(audioSize, language) ==
    LET base == [IdleCall EXCEPT !.targetLang = language]
    IN  IF audioSize > MaxAudioSize
        THEN [base EXCEPT !.pc = "thrown", !.outcome = Error("Audio file too large", 0)]
        ELSE [base EXCEPT !.pc = "calling", !.invoked = 1]

\* transcribeWithWhisper returned: return {text, language, duration}
transcribeSucceeded(call, text) ==
    [call EXCEPT !.pc = "returned",
                 !.outcome = [kind |-> "transcript", text |-> text, language |-> call.targetLang]]

\* mutant: transcribe sleeps retryDelay before every retry
transcribeFailedFlat(call, e, maxR, delay) ==
    LET c1 == [call EXCEPT !.lastError = RawError(e), !.fails = Append(@, e)]
    IN  IF call.attempt < maxR
        THEN [c1 EXCEPT !.pc = "sleeping", !.sleeps = Append(@, delay)]
        ELSE [c1 EXCEPT !.pc = "thrown", !.outcome = Error(e, maxR + 1)]

\* transcribeWithWhisper threw: the catch block of the retry loop, and the
\* throw after the loop
transcribeFailed(call, e, maxR, delay) ==
    LET c1 == [call EXCEPT !.lastError = RawError(e), !.fails = Append(@, e)]
    IN  IF call.attempt < maxR
        THEN [c1 EXCEPT !.pc = "sleeping", !.sleeps = Append(@, delay * Pow2(call.attempt))]
        ELSE [c1 EXCEPT !.pc = "thrown", !.outcome = Error(e, maxR + 1)]

\* the sleep resolved: attempt++, the next transcribeWithWhisper call
transcribeWoke(call) ==
    [call EXCEPT !.pc = "calling", !.attempt = @ + 1, !.invoked = @ + 1]

\* TtsService.VOICE_MAP[language] || 'alloy'
getVoice(language) ==
    CASE language \in {"zh-TW", "ko", "th"} -> "nova"
      [] language = "ja"                    -> "shimmer"
      [] OTHER                              -> "alloy"

\* generateSpeech, from its call to its first await
generateSpeechBegin(text, language) ==
    [IdleCall EXCEPT !.pc = "calling", !.invoked = 1, !.text = text, !.targetLang = language]

\* generateWithOpenAI returned: return result
generateSpeechSucceeded(call) ==
    [call EXCEPT !.pc = "returned",
                 !.outcome = [kind |-> "audio", text |-> call.text,
                              voice |-> getVoice(call.targetLang)]]

\* generateWithOpenAI threw: the catch block of the retry loop, and the
\* throw after the loop
generateSpeechFailed(call, e, maxR, delay) ==
    LET c1 == [call EXCEPT !.lastError = RawError(e), !.fails = Append(@, e)]
    IN  IF call.attempt < maxR
        THEN [c1 EXCEPT !.pc = "sleeping", !.sleeps = Append(@, delay * Pow2(call.attempt))]
        ELSE [c1 EXCEPT !.pc = "thrown", !.outcome = Error(e, maxR + 1)]

\* the sleep resolved: attempt++, the next generateWithOpenAI call
generateSpeechWoke(call) ==
    [call EXCEPT !.pc = "calling", !.attempt = @ + 1, !.invoked = @ + 1]

(***************************************************************************)
(* The stt endpoint and the tts endpoint, on the same request record.  The  *)
(* form of stt holds multipart, audio and language; tts reads text and      *)
(* language from the JSON body (text, targetLang of the record).  The       *)
(* provider call of either is one step: transcribing (transcribe) and       *)
(* speaking (generateSpeech).                                               *)
(***************************************************************************)
sttEndpointBegin(method, auth, form) ==
    LET req == [IdleRequest EXCEPT !.endpoint = "stt", !.method = method,
                                   !.auth = auth, !.form = form]
    IN  IF method = "OPTIONS" THEN Respond(req, 204, Null)
        ELSE IF method # "POST" THEN Respond(req, 405, [error |-> "Method not allowed"])
        ELSE IF auth = "none" THEN Respond(req, 401, [error |-> "Unauthorized"])
        ELSE [req EXCEPT !.pc = "verifying"]

\* verifyIdToken settled: the Content-Type check, then parseMultipartFormData
sttEndpointVerified(req) ==
    IF req.auth # "ok" THEN Respond(req, 401, [error |-> "Unauthorized"])
    ELSE IF ~req.form.multipart THEN Respond(req, 400, [error |-> "Bad Request"])
    ELSE [req EXCEPT !.pc = "parsing"]

\* parseMultipartFormData settled: parameter validation, then transcribe
sttEndpointParsed(req, ok) ==
    IF ~ok THEN ErrorResponse(req, Error("parse failed", 0))
    ELSE IF ~req.form.audio THEN Respond(req, 400, [error |-> "Bad Request"])
    ELSE IF ~TruthyLang(req.form.language) THEN Respond(req, 400, [error |-> "Bad Request"])
    ELSE IF req.form.language \notin supportedLanguages
         THEN Respond(req, 400, [error |-> "Bad Request"])
    ELSE [req EXCEPT !.pc = "transcribing", !.sourceLang = req.form.language,
                     !.trace = Append(@, "transcription")]

\* transcribe settled: the 200 answer with the text, or the catch block
sttEndpointTranscribed(req, ok, text) ==
    IF ~ok THEN ErrorResponse(req, Error("Transcription failed", 0))
    ELSE Respond(req, 200, [text |-> text, language |-> req.sourceLang])

\* text.length > 4096
MaxSpeechLength == 4096
LongSpeech == [i \in 1..MaxSpeechLength + 1 |-> 1]

\* mutant: tts calls generateSpeech without looking at the parameters
ttsUnvalidated(req) == [req EXCEPT !.pc = "speaking", !.trace = Append(@, "speech")]

\* tts, the parameter validation and the call of generateSpeech
ttsValidated(req) ==
    IF Len(req.text) = 0 THEN Respond(req, 400, [error |-> "Bad Request"])
    ELSE IF ~TruthyLang(req.targetLang) THEN Respond(req, 400, [error |-> "Bad Request"])
    ELSE IF req.targetLang \notin supportedLanguages
         THEN Respond(req, 400, [error |-> "Bad Request"])
    ELSE IF Len(req.text) > MaxSpeechLength THEN Respond(req, 400, [error |-> "Bad Request"])
    ELSE [req EXCEPT !.pc = "speaking", !.trace = Append(@, "speech")]

\* the handler from its start to verifyIdToken; without a Bearer token the
\* caller is a guest and the handler goes on
ttsBegin(method, auth, text, language) ==
    LET req == [IdleRequest EXCEPT !.endpoint = "tts", !.method = method, !.auth = auth,
                                   !.text = text, !.targetLang = language]
    IN  IF method = "OPTIONS" THEN Respond(req, 204, Null)
        ELSE IF method # "POST" THEN Respond(req, 405, [error |-> "Method not allowed"])
        ELSE IF auth = "none" THEN ttsValidated(req)
        ELSE [req EXCEPT !.pc = "verifying"]

\* verifyIdToken settled: a token that is not valid makes the caller a guest
ttsVerified(req) == ttsValidated(req)

\* generateSpeech settled: the 200 answer with the audio, or the catch block
ttsSpoken(req, ok) ==
    IF ~ok THEN ErrorResponse(req, Error("TTS generation failed", 0))
    ELSE Respond(req, 200, [audio |-> req.text, voice |-> getVoice(req.targetLang)])

(***************************************************************************)
(* onNewChatMessage, the trigger that sends the push notification.  The     *)
(* invocation:                                                              *)
(*   pc            idle | userGet (users/{receiverId}.get() is in flight)   *)
(*                 | sending (admin.messaging().send is in flight) | done   *)
(*   messageData   snapshot.data(): senderId, receiverId, messageText,      *)
(*                 senderName                                               *)
(*   sent          the message handed to send: token, title, body           *)
(*   error         error.code of what the catch block caught                *)
(*   cleanupError  what the inner catch block caught                        *)
(*   returned      what the handler returned                                *)
(* The document users/{receiverId}: exists, fcmToken, and the               *)
(* fcmTokenDeleteReason the cleanup writes.                                 *)
(***************************************************************************)
\* messageText.length > 100 ? messageText.substring(0, 100) + '...'
NotificationBodyMax == 100
Ellipsis == <<46, 46, 46>>
PushText == [i \in 1..NotificationBodyMax |-> 1] \o <<2>>

\* return; without a value
Undefined == [kind |-> "undefined"]

\* a field that is absent reads as the empty string
ReceiverDoc == [exists |-> TRUE, fcmToken |-> "token", fcmTokenDeleteReason |-> ""]

IdlePush ==
    [pc |-> "idle", messageData |-> Null, sent |-> Null, error |-> "",
     cleanupError |-> "", returned |-> Null]

InvalidTokenCodes ==
    {"messaging/invalid-registration-token", "messaging/registration-token-not-registered"}

notificationBody(messageText) ==
    IF Len(messageText) > NotificationBodyMax
    THEN SubSeq(messageText, 1, NotificationBodyMax) \o Ellipsis
    ELSE messageText

\* messageData.senderName || '用戶'
senderNameOf(messageData) ==
    IF messageData.senderName = "" THEN "user" ELSE messageData.senderName

\* the handler from its start to the get() of the receiver's document
onNewChatMessageBegin(hasSnapshot, messageData) ==
    LET p == [IdlePush EXCEPT !.messageData = messageData]
    IN  IF ~hasSnapshot THEN [IdlePush EXCEPT !.pc = "done", !.returned = Undefined]
        ELSE IF messageData.senderId = "system" THEN [p EXCEPT !.pc = "done"]
        ELSE IF messageData.receiverId = "" \/ Len(messageData.messageText) = 0
        THEN [p EXCEPT !.pc = "done"]
        ELSE [p EXCEPT !.pc = "userGet"]

\* the names the catch block can read: the parameter of the handler, the
\* constants declared before the try block, the module's admin, and error.
\* senderId, receiverId, messageText and senderName are constants of the try
\* block: they are not in scope in the catch block.
CatchScope == {"event", "snapshot", "messageData", "roomId", "messageId", "admin", "error"}

\* update({fcmToken: FieldValue.delete(), fcmTokenDeletedAt, fcmTokenDeleteReason})
removeFcmToken(doc) ==
    [doc EXCEPT !.fcmToken = "", !.fcmTokenDeleteReason = "Invalid or unregistered token"]

\* the catch block: an invalid or unregistered token is cleaned up inside an
\* inner try, whose catch block logs what the cleanup threw; then
\* {success: false} is returned.  doc(receiverId) is evaluated in the catch
\* block; ok is the outcome of the update.  The result is [push, users].
onNewChatMessageCaught(p, doc, code, ok) ==
    LET failed == [p EXCEPT !.pc = "done", !.error = code,
                            !.returned = [success |-> FALSE, error |-> code]]
    IN  IF code \notin InvalidTokenCodes THEN [push |-> failed, users |-> doc]
        ELSE IF "receiverId" \notin CatchScope
        THEN [push |-> [failed EXCEPT !.cleanupError = "ReferenceError"], users |-> doc]
        ELSE IF ok /\ doc.exists THEN [push |-> failed, users |-> removeFcmToken(doc)]
        ELSE [push |-> [failed EXCEPT !.cleanupError = "update failed"], users |-> doc]

\* get() of the receiver's document settled: the token, the message to send
onNewChatMessageUserRead(p, doc, ok) ==
    IF ~ok THEN onNewChatMessageCaught(p, doc, "unavailable", ok).push
    ELSE IF ~doc.exists THEN [p EXCEPT !.pc = "done"]
    ELSE IF doc.fcmToken = "" THEN [p EXCEPT !.pc = "done"]
    ELSE [p EXCEPT !.pc = "sending",
                   !.sent = [token |-> doc.fcmToken,
                             title |-> senderNameOf(p.messageData),
                             body |-> notificationBody(p.messageData.messageText)]]

\* send settled: {success: true}, or the catch block
onNewChatMessageSent(p, doc, result, ok) ==
    IF result = "sent"
    THEN [push |-> [p EXCEPT !.pc = "done", !.returned = [success |-> TRUE, fcmResponse |-> result]],
          users |-> doc]
    ELSE onNewChatMessageCaught(p, doc, result, ok)

vars ==
    <<now, maxRetries, retryDelay, prompt, cache, calls, batch, store, reqs,
      sweep, message, trigger, treq, push, users>>

Requests == 1..MaxRequests

RetryDelays == {DefaultRetryDelay, DefaultRetryDelay \div 4}

InitIdle ==
    /\ now = 0
    /\ prompt = FirstPrompt
    /\ cache = [s \in Slots |-> EmptyMap]
    /\ calls = [c \in Slots |-> IdleCall]
    /\ batch = IdleBatch
    /\ reqs = [r \in Requests |-> IdleRequest]
    /\ sweep = IdleSweep
    /\ message = NewMessage
    /\ trigger = IdleTrigger
    /\ treq = IdleMessageRequest
    /\ push = IdlePush
    /\ users = ReceiverDoc

(***************************************************************************)
(* The clock counts seconds (30 days of milliseconds do not fit TLC's       *)
(* integers); the sleep delays stay in ms, they are recorded, not added to  *)
(* the clock.  The clock advances by cacheTTL, MaxTicks times at most: an   *)
(* entry is read at its insertion time, at exactly cacheTTL and later.      *)
(***************************************************************************)
TicksTaken(t) == t \div cacheTTL

Tick ==
    /\ TicksTaken(now) < MaxTicks
    /\ now' = now + cacheTTL
    /\ UNCHANGED <<maxRetries, retryDelay, prompt, cache, calls, batch, store, reqs, sweep, message, trigger, treq, push, users>>

(***************************************************************************)
(* Steps of the translate call in slot c: the provider answers, the         *)
(* provider call fails, the backoff sleep ends.                             *)
(***************************************************************************)
ProviderSucceed(c, blank) ==
    /\ calls[c].pc = "calling"
    /\ LET r == translateSucceeded(calls[c], cache[calls[c].svc], now, blank, prompt)
       IN  /\ calls' = [calls EXCEPT ![c] = r.call]
           /\ cache' = [cache EXCEPT ![calls[c].svc] = r.cache]
    /\ UNCHANGED <<now, maxRetries, retryDelay, prompt, batch, store, sweep, message, trigger, treq, push, users>>

ProviderFail(c, e) ==
    /\ calls[c].pc = "calling"
    /\ calls' = [calls EXCEPT ![c] = translateFailed(calls[c], e, maxRetries, retryDelay)]
    /\ UNCHANGED <<now, maxRetries, retryDelay, prompt, cache, batch, store, sweep, message, trigger, treq, push, users>>

WakeUp(c) ==
    /\ calls[c].pc = "sleeping"
    /\ calls' = [calls EXCEPT ![c] = translateWoke(calls[c])]
    /\ UNCHANGED <<now, maxRetries, retryDelay, prompt, cache, batch, store, sweep, message, trigger, treq, push, users>>

(***************************************************************************)
(* Spec: translate calls made one after the other on one instance.          *)
(***************************************************************************)
DirectSlot == 1
DirectSources == {"auto", "en"}
DirectTargets == {"en", "ja"}
DirectTexts == {LongA, LongB}
DirectErrors == {"401", "400", "503", "ETIMEDOUT"}

Translate(text, sourceLang, targetLang) ==
    /\ calls[DirectSlot].pc \in {"idle", "returned", "thrown"}
    /\ LET r == translateBegin(1, text, sourceLang, targetLang, cache[1], now)
       IN  /\ calls' = [calls EXCEPT ![DirectSlot] = r.call]
           /\ cache' = [cache EXCEPT ![1] = r.cache]
    /\ UNCHANGED <<now, maxRetries, retryDelay, prompt, batch, store, reqs, sweep, message, trigger, treq, push, users>>

Init ==
    /\ InitIdle
    /\ maxRetries \in 0..MaxRetriesBound
    /\ retryDelay \in RetryDelays
    /\ store = EmptyMap

Next ==
    \/ \E text \in DirectTexts, s \in DirectSources, t \in DirectTargets : Translate(text, s, t)
    \/ \E blank \in {FALSE} : ProviderSucceed(DirectSlot, blank) /\ UNCHANGED reqs
    \/ \E e \in DirectErrors : ProviderFail(DirectSlot, e) /\ UNCHANGED reqs
    \/ WakeUp(DirectSlot) /\ UNCHANGED reqs
    \/ Tick

Spec == Init /\ [][Next]_vars

(***************************************************************************)
(* SpecBatch: one translateBatch call on a fresh instance, as               *)
(* onMessageCreate makes it.  The target variants are distinct; they may    *)
(* hold the source language and the empty string.                           *)
(***************************************************************************)
BatchText == ShortText
BatchSource == "zh-TW"
BatchLangs == {"en", "ja", "ko", "zh-TW", ""}
BatchErrors == {"503"}

NoDuplicates(seq) == \A i, j \in 1..Len(seq) : i # j => seq[i] # seq[j]
TargetLists ==
    {seq \in UNION {[1..n -> BatchLangs] : n \in 0..MaxTargets} : NoDuplicates(seq)}

translateBatch(text, sourceLang, targetLangs, maxConcurrent) ==
    /\ batch.pc = "idle"
    /\ LET st == batchBegin(text, sourceLang, targetLangs, maxConcurrent, calls, cache[1], now)
       IN  /\ batch' = st.batch
           /\ calls' = st.calls
           /\ cache' = [cache EXCEPT ![1] = st.cache]
    /\ UNCHANGED <<now, maxRetries, retryDelay, prompt, store, reqs, sweep, message, trigger, treq, push, users>>

WorkerResume(w) ==
    /\ batch.pc = "running"
    /\ batch.workers[w].pc = "awaiting"
    /\ CallSettled(calls[w])
    /\ LET st == workerResumed(w, [batch |-> batch, calls |-> calls, cache |-> cache[1]], now)
       IN  /\ batch' = st.batch
           /\ calls' = st.calls
           /\ cache' = [cache EXCEPT ![1] = st.cache]
    /\ UNCHANGED <<now, maxRetries, retryDelay, prompt, store, reqs, sweep, message, trigger, treq, push, users>>

\* await Promise.all(workers): rejected by the first worker that rejects,
\* resolved when every worker has returned
BatchSettle ==
    /\ batch.pc = "running"
    /\ LET rejected == \E w \in Slots : batch.workers[w].pc = "rejected"
           finished == \A w \in Slots : batch.workers[w].pc \in {"none", "done"}
       IN  /\ IF rejected THEN TRUE ELSE finished
           /\ batch' = [batch EXCEPT !.pc = IF rejected THEN "rejected" ELSE "resolved"]
    /\ UNCHANGED <<now, maxRetries, retryDelay, prompt, cache, calls, store, reqs, sweep, message, trigger, treq, push, users>>

BatchRetries == 0..1

InitBatch ==
    /\ InitIdle
    /\ maxRetries \in BatchRetries
    /\ retryDelay = DefaultRetryDelay
    /\ store = EmptyMap

NextBatch ==
    \/ \E targets \in TargetLists, m \in 0..MaxConcurrentBound :
           translateBatch(BatchText, BatchSource, targets, m)
    \/ \E w \in Slots : WorkerResume(w)
    \/ BatchSettle
    \/ \E c \in Slots : ProviderSucceed(c, FALSE) /\ UNCHANGED reqs
    \/ \E c \in Slots, e \in BatchErrors : ProviderFail(c, e) /\ UNCHANGED reqs
    \/ \E c \in Slots : WakeUp(c) /\ UNCHANGED reqs

SpecBatch == InitBatch /\ [][NextBatch]_vars

(***************************************************************************)
(* SpecBatchLive: SpecBatch with the scheduling the code relies on.  Every  *)
(* provider call in flight eventually returns or fails, every timer of      *)
(* sleep fires, and the event loop runs every continuation that is ready:   *)
(* a worker whose translate call has settled, and the Promise.all of the    *)
(* batch.                                                                   *)
(***************************************************************************)
ProviderAnswers(c) ==
    \/ ProviderSucceed(c, FALSE) /\ UNCHANGED reqs
    \/ \E e \in BatchErrors : ProviderFail(c, e) /\ UNCHANGED reqs

TimerFires(c) == WakeUp(c) /\ UNCHANGED reqs

BatchFairness ==
    /\ \A c \in Slots : WF_vars(ProviderAnswers(c))
    /\ \A c \in Slots : WF_vars(TimerFires(c))
    /\ \A w \in Slots : WF_vars(WorkerResume(w))
    /\ WF_vars(BatchSettle)

SpecBatchLive == InitBatch /\ [][NextBatch]_vars /\ BatchFairness

(***************************************************************************)
(* SpecEndpoint: requests to the translate endpoint, each in its own slot   *)
(* and with its own TranslationService instance, on one Firestore store.    *)
(* Every Firestore call may fail.                                           *)
(***************************************************************************)
\* the requests sent: one that passes validation and one for each way to fail it
ValidRequest == [method |-> "POST", auth |-> "ok", text |-> ShortText, targetLang |-> "en"]
EndpointInputs ==
    {ValidRequest,
     [ValidRequest EXCEPT !.method = "OPTIONS"],
     [ValidRequest EXCEPT !.method = "GET"],
     [ValidRequest EXCEPT !.auth = "none"],
     [ValidRequest EXCEPT !.auth = "bad"],
     [ValidRequest EXCEPT !.text = <<>>],
     [ValidRequest EXCEPT !.targetLang = ""],
     [ValidRequest EXCEPT !.targetLang = "xx"]}
EndpointErrors == {"429"}
EndpointRetries == {1}

RequestArrives(r, method, auth, text, targetLang) ==
    /\ reqs[r].pc = "idle"
    /\ reqs' = [reqs EXCEPT ![r] = [requestBegin(method, auth, text, targetLang)
                                        EXCEPT !.prompt = prompt]]
    /\ UNCHANGED <<now, maxRetries, retryDelay, prompt, cache, calls, batch, store, sweep, message, trigger, treq, push, users>>

TokenVerified(r) ==
    /\ reqs[r].pc = "verifying"
    /\ reqs' = [reqs EXCEPT ![r] = requestVerified(reqs[r])]
    /\ UNCHANGED <<now, maxRetries, retryDelay, prompt, cache, calls, batch, store, sweep, message, trigger, treq, push, users>>

\* mutant: the catch block of getTranslation answers the entry it had read
getTranslationCaughtFound(found) ==
    IF found = Null THEN Null ELSE found.translatedText

\* the catch block of getTranslation: the failure is logged, null returned
getTranslationCaught(found) == Null

\* the step every path out of getTranslation takes
Looked(r, req, cachedTranslation) ==
    LET st == IF req.endpoint = "sttAndTranslate"
              THEN sttLookedUp(r, req, cachedTranslation, now)
              ELSE requestLookedUp(r, req, cachedTranslation, now)
    IN  /\ reqs' = [reqs EXCEPT ![r] = st.req]
        /\ calls' = [calls EXCEPT ![r] = st.call]
        /\ cache' = [cache EXCEPT ![r] = st.cache]

\* getTranslation: get() settled
StoreGet(r, ok) ==
    /\ reqs[r].pc = "cacheGet"
    /\ LET key == generateCacheKey(reqs[r].text, reqs[r].targetLang)
       IN  IF ~ok
           THEN Looked(r, reqs[r], getTranslationCaught(reqs[r].found))
           ELSE IF key \notin DOMAIN store
           THEN Looked(r, reqs[r], Null)
           ELSE /\ reqs' = [reqs EXCEPT ![r] =
                        [@ EXCEPT !.found = store[key],
                                  !.readAt = now,
                                  !.pc = IF StoreExpired(store[key], now)
                                         THEN "cacheDelete" ELSE "cacheUpdate"]]
                /\ UNCHANGED <<cache, calls>>
    /\ UNCHANGED <<now, maxRetries, retryDelay, prompt, batch, store, sweep, message, trigger, treq, push, users>>

\* getTranslation: delete() of the expired document settled
StoreDelete(r, ok) ==
    /\ reqs[r].pc = "cacheDelete"
    /\ store' = IF ok THEN MapDelete(store, generateCacheKey(reqs[r].text, reqs[r].targetLang))
                ELSE store
    /\ IF ok
       THEN Looked(r, [reqs[r] EXCEPT !.trace = Append(@, "durableDelete")], Null)
       ELSE Looked(r, reqs[r], getTranslationCaught(reqs[r].found))
    /\ UNCHANGED <<now, maxRetries, retryDelay, prompt, batch, sweep, message, trigger, treq, push, users>>

\* getTranslation: update() settled; update() of a document that is gone fails
StoreUpdate(r, ok) ==
    /\ reqs[r].pc = "cacheUpdate"
    /\ LET key == generateCacheKey(reqs[r].text, reqs[r].targetLang)
       IN  IF ok /\ key \in DOMAIN store
           THEN /\ store' = [store EXCEPT ![key] = TouchDoc(@, now)]
                /\ Looked(r, [reqs[r] EXCEPT !.trace = Append(@, "durableTouch")],
                          reqs[r].found.translatedText)
           ELSE /\ store' = store
                /\ Looked(r, reqs[r], getTranslationCaught(reqs[r].found))
    /\ UNCHANGED <<now, maxRetries, retryDelay, prompt, batch, sweep, message, trigger, treq, push, users>>

\* translateText settled.  The TranslationService instance is a local of the
\* handler: its cache is gone when the handler returns.
TranslateSettled(r) ==
    /\ reqs[r].pc = "translating"
    /\ CallSettled(calls[r])
    /\ reqs' = [reqs EXCEPT ![r] = IF reqs[r].endpoint = "sttAndTranslate"
                                    THEN sttTranslated(reqs[r], calls[r])
                                    ELSE requestTranslated(reqs[r], calls[r])]
    /\ cache' = IF reqs'[r].pc = "done" THEN [cache EXCEPT ![r] = EmptyMap] ELSE cache
    /\ UNCHANGED <<now, maxRetries, retryDelay, prompt, calls, batch, store, sweep, message, trigger, treq, push, users>>

\* setTranslation: set() settled, its failure swallowed; the 200 answer
StoreSet(r, ok) ==
    /\ reqs[r].pc = "cacheSet"
    /\ store' = IF ok
                THEN MapSet(store, generateCacheKey(reqs[r].text, reqs[r].targetLang),
                            CacheDoc(reqs[r].text, reqs[r].targetLang, reqs[r].translatedText, now))
                ELSE store
    /\ reqs' = [reqs EXCEPT ![r] = IF reqs[r].endpoint = "sttAndTranslate"
                                    THEN sttStored(reqs[r], ok)
                                    ELSE requestStored(reqs[r], ok)]
    /\ cache' = [cache EXCEPT ![r] = EmptyMap]
    /\ UNCHANGED <<now, maxRetries, retryDelay, prompt, calls, batch, sweep, message, trigger, treq, push, users>>

\* the provider steps of a request's translate call, with the request's trace
RequestProviderSucceed(r, blank) ==
    /\ reqs[r].pc = "translating"
    /\ ProviderSucceed(r, blank)
    /\ reqs' = [reqs EXCEPT ![r].trace = Append(@, "memoryWrite")]

RequestProviderFail(r, e) ==
    /\ reqs[r].pc = "translating"
    /\ ProviderFail(r, e)
    /\ UNCHANGED reqs

RequestWakeUp(r) ==
    /\ reqs[r].pc = "translating"
    /\ WakeUp(r)
    /\ UNCHANGED reqs

\* the clock passes the expiry of every document written so far, once
ExpiryStep == cacheExpirationDays * DaySeconds + 1

TickDays ==
    /\ now < ExpiryStep
    /\ now' = now + ExpiryStep
    /\ UNCHANGED <<maxRetries, retryDelay, prompt, cache, calls, batch, store, reqs, sweep, message, trigger, treq, push, users>>

\* a deployment with another prompt, once; the instances that serve requests
\* are replaced between requests
DeployPrompt ==
    /\ prompt = FirstPrompt
    /\ \A r \in Requests : reqs[r].pc \in {"idle", "done"}
    /\ prompt' = NextPrompt
    /\ UNCHANGED <<now, maxRetries, retryDelay, cache, calls, batch, store, reqs, sweep, message, trigger, treq, push, users>>

\* the provider's content can be blank for the request in the first slot
BlankAnswers(r) == IF r = 1 THEN BOOLEAN ELSE {FALSE}

InitEndpoint ==
    /\ InitIdle
    /\ maxRetries \in EndpointRetries
    /\ retryDelay = DefaultRetryDelay
    /\ store = EmptyMap

NextEndpoint ==
    \/ \E r \in Requests, i \in EndpointInputs :
           RequestArrives(r, i.method, i.auth, i.text, i.targetLang)
    \/ \E r \in Requests : TokenVerified(r)
    \/ \E r \in Requests, ok \in BOOLEAN : StoreGet(r, ok)
    \/ \E r \in Requests, ok \in BOOLEAN : StoreDelete(r, ok)
    \/ \E r \in Requests, ok \in BOOLEAN : StoreUpdate(r, ok)
    \/ \E r \in Requests : \E blank \in BlankAnswers(r) : RequestProviderSucceed(r, blank)
    \/ \E r \in Requests, e \in EndpointErrors : RequestProviderFail(r, e)
    \/ \E r \in Requests : RequestWakeUp(r)
    \/ \E r \in Requests : TranslateSettled(r)
    \/ \E r \in Requests, ok \in BOOLEAN : StoreSet(r, ok)
    \/ TickDays
    \/ DeployPrompt

SpecEndpoint == InitEndpoint /\ [][NextEndpoint]_vars

(***************************************************************************)
(* SpecSweep: one cleanupExpiredCache call while requests to the translate  *)
(* endpoint go on, on one Firestore store.                                  *)
(***************************************************************************)
SweepInputs == {ValidRequest}

CleanupExpiredCache ==
    /\ sweep.pc = "idle"
    /\ sweep' = cleanupBegin(now)
    /\ UNCHANGED <<now, maxRetries, retryDelay, prompt, cache, calls, batch, store, reqs,
                   message, trigger, treq, push, users>>

CleanupQuerySettled(ok) ==
    /\ sweep.pc = "query"
    /\ sweep' = cleanupQueried(sweep, store, ok)
    /\ UNCHANGED <<now, maxRetries, retryDelay, prompt, cache, calls, batch, store, reqs,
                   message, trigger, treq, push, users>>

CleanupCommitSettled(ok) ==
    /\ sweep.pc = "commit"
    /\ LET st == cleanupCommitted(sweep, store, ok)
       IN  /\ sweep' = st.sweep
           /\ store' = st.store
    /\ UNCHANGED <<now, maxRetries, retryDelay, prompt, cache, calls, batch, reqs,
                   message, trigger, treq, push, users>>

NextSweep ==
    \/ \E r \in Requests, i \in SweepInputs :
           RequestArrives(r, i.method, i.auth, i.text, i.targetLang)
    \/ \E r \in Requests : TokenVerified(r)
    \/ \E r \in Requests, ok \in BOOLEAN : StoreGet(r, ok)
    \/ \E r \in Requests, ok \in BOOLEAN : StoreDelete(r, ok)
    \/ \E r \in Requests, ok \in BOOLEAN : StoreUpdate(r, ok)
    \/ \E r \in Requests : RequestProviderSucceed(r, FALSE)
    \/ \E r \in Requests, e \in EndpointErrors : RequestProviderFail(r, e)
    \/ \E r \in Requests : RequestWakeUp(r)
    \/ \E r \in Requests : TranslateSettled(r)
    \/ \E r \in Requests, ok \in BOOLEAN : StoreSet(r, ok)
    \/ TickDays
    \/ CleanupExpiredCache
    \/ \E ok \in BOOLEAN : CleanupQuerySettled(ok)
    \/ \E ok \in BOOLEAN : CleanupCommitSettled(ok)

SpecSweep == InitEndpoint /\ [][NextSweep]_vars

(***************************************************************************)
(* SpecStt: requests to the sttAndTranslate endpoint, each with its own     *)
(* TranslationService instance, on one Firestore store.                     *)
(***************************************************************************)
\* the requests sent: two that pass validation, with the target language the
\* source language and another one, and one for each way to fail validation
ValidForm == [multipart |-> TRUE, audio |-> TRUE, sourceLang |-> "en", targetLang |-> "ja"]
ValidSttRequest == [method |-> "POST", auth |-> "ok", form |-> ValidForm]
SttInputs ==
    {ValidSttRequest,
     [ValidSttRequest EXCEPT !.form.targetLang = "en"],
     [ValidSttRequest EXCEPT !.method = "OPTIONS"],
     [ValidSttRequest EXCEPT !.method = "GET"],
     [ValidSttRequest EXCEPT !.auth = "none"],
     [ValidSttRequest EXCEPT !.auth = "bad"],
     [ValidSttRequest EXCEPT !.form.multipart = FALSE],
     [ValidSttRequest EXCEPT !.form.audio = FALSE],
     [ValidSttRequest EXCEPT !.form.sourceLang = ""],
     [ValidSttRequest EXCEPT !.form.sourceLang = "xx"],
     [ValidSttRequest EXCEPT !.form.targetLang = ""],
     [ValidSttRequest EXCEPT !.form.targetLang = "xx"]}
\* what transcribe answers
SttTexts == {ShortText}

SttArrives(r, method, auth, form) ==
    /\ reqs[r].pc = "idle"
    /\ reqs' = [reqs EXCEPT ![r] = [sttBegin(method, auth, form) EXCEPT !.prompt = prompt]]
    /\ UNCHANGED <<now, maxRetries, retryDelay, prompt, cache, calls, batch, store,
                   sweep, message, trigger, treq, push, users>>

SttTokenVerified(r) ==
    /\ reqs[r].pc = "verifying"
    /\ reqs' = [reqs EXCEPT ![r] = sttVerified(reqs[r])]
    /\ UNCHANGED <<now, maxRetries, retryDelay, prompt, cache, calls, batch, store,
                   sweep, message, trigger, treq, push, users>>

SttParsed(r, ok) ==
    /\ reqs[r].pc = "parsing"
    /\ reqs' = [reqs EXCEPT ![r] = sttParsed(reqs[r], ok)]
    /\ UNCHANGED <<now, maxRetries, retryDelay, prompt, cache, calls, batch, store,
                   sweep, message, trigger, treq, push, users>>

SttTranscribed(r, ok, text) ==
    /\ reqs[r].pc = "transcribing"
    /\ reqs' = [reqs EXCEPT ![r] = sttTranscribed(reqs[r], ok, text)]
    /\ UNCHANGED <<now, maxRetries, retryDelay, prompt, cache, calls, batch, store,
                   sweep, message, trigger, treq, push, users>>

NextStt ==
    \/ \E r \in Requests, i \in SttInputs : SttArrives(r, i.method, i.auth, i.form)
    \/ \E r \in Requests : SttTokenVerified(r)
    \/ \E r \in Requests, ok \in BOOLEAN : SttParsed(r, ok)
    \/ \E r \in Requests, ok \in BOOLEAN, text \in SttTexts : SttTranscribed(r, ok, text)
    \/ \E r \in Requests, ok \in BOOLEAN : StoreGet(r, ok)
    \/ \E r \in Requests, ok \in BOOLEAN : StoreDelete(r, ok)
    \/ \E r \in Requests, ok \in BOOLEAN : StoreUpdate(r, ok)
    \/ \E r \in Requests : RequestProviderSucceed(r, FALSE)
    \/ \E r \in Requests, e \in EndpointErrors : RequestProviderFail(r, e)
    \/ \E r \in Requests : RequestWakeUp(r)
    \/ \E r \in Requests : TranslateSettled(r)
    \/ \E r \in Requests, ok \in BOOLEAN : StoreSet(r, ok)
    \/ TickDays

SpecStt == InitEndpoint /\ [][NextStt]_vars

(***************************************************************************)
(* SpecMessage: the created-event of one message is delivered to            *)
(* onMessageCreate, more than once but one delivery at a time, and one      *)
(* request for the message is sent to translateMessage.  Each invocation    *)
(* has its own TranslationService instance.                                 *)
(***************************************************************************)
\* the message as its sender created it: with a text, without one, and with
\* a translation already in it
CreatedMessages ==
    {NewMessage,
     [NewMessage EXCEPT !.messageText = <<>>],
     [NewMessage EXCEPT !.translations = MapSet(EmptyMap, "en", Result(Translated(ShortText, "en"), 0)),
                        !.order = <<"en">>]}
Deliveries == {1, 2}
ReceiverLangs == {"ko", "ja", "en", "zh-TW"}
MessageErrors == {"503"}
MessageRetries == {1}

ValidMessageRequest ==
    [method |-> "POST", auth |-> "ok", userId |-> "customer", targetLang |-> "en",
     messageExists |-> TRUE, roomExists |-> TRUE]
MessageInputs ==
    {ValidMessageRequest,
     [ValidMessageRequest EXCEPT !.targetLang = "ko"],
     [ValidMessageRequest EXCEPT !.targetLang = "zh-TW"],
     [ValidMessageRequest EXCEPT !.targetLang = ""],
     [ValidMessageRequest EXCEPT !.method = "GET"],
     [ValidMessageRequest EXCEPT !.auth = "none"],
     [ValidMessageRequest EXCEPT !.auth = "bad"],
     [ValidMessageRequest EXCEPT !.messageExists = FALSE],
     [ValidMessageRequest EXCEPT !.roomExists = FALSE],
     [ValidMessageRequest EXCEPT !.userId = "stranger"],
     [ValidMessageRequest EXCEPT !.userId = "stranger", !.targetLang = "ko"],
     [ValidMessageRequest EXCEPT !.userId = "stranger", !.messageExists = FALSE],
     [ValidMessageRequest EXCEPT !.userId = "stranger", !.method = "GET"],
     [ValidMessageRequest EXCEPT !.userId = "stranger", !.targetLang = ""]}

\* the created-event is delivered
Deliver ==
    /\ trigger.pc \in {"idle", "done"}
    /\ trigger.delivery + 1 \in Deliveries
    /\ trigger' = [onMessageCreateBegin(trigger)
                       EXCEPT !.translated = DOMAIN message.translations # {}]
    /\ UNCHANGED <<now, maxRetries, retryDelay, prompt, cache, calls, batch, store, reqs,
                   sweep, message, treq, push, users>>

\* the users documents were read, or the read failed: translateBatch on a
\* new instance, when a target language is left
UsersRead(ok, receiverLang) ==
    /\ trigger.pc = "users"
    /\ LET messageData == trigger.snapshot
           sourceLang == messageSourceLang(messageData)
           targets == targetLanguagesFor(sourceLang, ok, receiverLang)
           st == batchBegin(messageData.messageText, sourceLang, targets,
                            DefaultMaxConcurrent, calls, EmptyMap, now)
       IN  IF Len(targets) = 0
           THEN /\ trigger' = [trigger EXCEPT !.pc = "done", !.outcome = "skipped"]
                /\ UNCHANGED <<batch, calls, cache>>
           ELSE /\ trigger' = [trigger EXCEPT !.pc = "batch", !.targetLanguages = targets]
                /\ batch' = st.batch
                /\ calls' = st.calls
                /\ cache' = [cache EXCEPT ![1] = st.cache]
    /\ UNCHANGED <<now, maxRetries, retryDelay, prompt, store, reqs, sweep, message, treq, push, users>>

\* await translateBatch(...) settled
BatchReturned ==
    /\ trigger.pc = "batch"
    /\ batch.pc \in {"resolved", "rejected"}
    /\ trigger' = IF batch.pc = "resolved" THEN onMessageCreateTranslated(trigger, batch)
                  ELSE [trigger EXCEPT !.pc = "errorUpdate"]
    /\ UNCHANGED <<now, maxRetries, retryDelay, prompt, cache, calls, batch, store, reqs,
                   sweep, message, treq, push, users>>

\* snapshot.ref.update settled; its failure goes to the catch block
TriggerUpdateSettled(ok) ==
    /\ trigger.pc = "update"
    /\ IF ok
       THEN /\ message' = messageUpdated(message, trigger, now)
            /\ trigger' = [trigger EXCEPT !.pc = "done", !.outcome = "success",
                                          !.trace = Append(@, "write")]
       ELSE /\ message' = message
            /\ trigger' = [trigger EXCEPT !.pc = "errorUpdate"]
    /\ UNCHANGED <<now, maxRetries, retryDelay, prompt, cache, calls, batch, store, reqs,
                   sweep, treq, push, users>>

\* the update of the catch block settled; its failure rejects the handler
TriggerErrorUpdateSettled(ok) ==
    /\ trigger.pc = "errorUpdate"
    /\ IF ok
       THEN /\ message' = messageFailed(message, now)
            /\ trigger' = [trigger EXCEPT !.pc = "done", !.outcome = "failure",
                                          !.trace = Append(@, "write")]
       ELSE /\ message' = message
            /\ trigger' = [trigger EXCEPT !.pc = "done", !.outcome = "rejected"]
    /\ UNCHANGED <<now, maxRetries, retryDelay, prompt, cache, calls, batch, store, reqs,
                   sweep, treq, push, users>>

MessageRequestArrives(i) ==
    /\ treq.pc = "idle"
    /\ treq' = translateMessageBegin(i)
    /\ UNCHANGED <<now, maxRetries, retryDelay, prompt, cache, calls, batch, store, reqs,
                   sweep, message, trigger, push, users>>

MessageTokenVerified ==
    /\ treq.pc = "verifying"
    /\ treq' = translateMessageVerified(treq)
    /\ UNCHANGED <<now, maxRetries, retryDelay, prompt, cache, calls, batch, store, reqs,
                   sweep, message, trigger, push, users>>

MessageRead(ok) ==
    /\ treq.pc = "messageGet"
    /\ treq' = translateMessageRead(treq, message, ok)
    /\ UNCHANGED <<now, maxRetries, retryDelay, prompt, cache, calls, batch, store, reqs,
                   sweep, message, trigger, push, users>>

RoomRead(ok) ==
    /\ treq.pc = "roomGet"
    /\ LET st == translateMessageRoomRead(treq, ok, now)
       IN  /\ treq' = st.req
           /\ calls' = [calls EXCEPT ![MessageSlot] = st.call]
           /\ cache' = [cache EXCEPT ![MessageSlot] = st.cache]
    /\ UNCHANGED <<now, maxRetries, retryDelay, prompt, batch, store, reqs,
                   sweep, message, trigger, push, users>>

MessageTranslateSettled ==
    /\ treq.pc = "translating"
    /\ CallSettled(calls[MessageSlot])
    /\ treq' = translateMessageTranslated(treq, calls[MessageSlot])
    /\ UNCHANGED <<now, maxRetries, retryDelay, prompt, cache, calls, batch, store, reqs,
                   sweep, message, trigger, push, users>>

MessageRequestUpdateSettled(ok) ==
    /\ treq.pc = "update"
    /\ message' = IF ok THEN translateMessageUpdate(message, treq, now) ELSE message
    /\ treq' = translateMessageUpdated(treq, ok)
    /\ UNCHANGED <<now, maxRetries, retryDelay, prompt, cache, calls, batch, store, reqs,
                   sweep, trigger, push, users>>

InitMessage ==
    /\ now = 0
    /\ prompt = FirstPrompt
    /\ cache = [s \in Slots |-> EmptyMap]
    /\ calls = [c \in Slots |-> IdleCall]
    /\ batch = IdleBatch
    /\ reqs = [r \in Requests |-> IdleRequest]
    /\ sweep = IdleSweep
    /\ maxRetries \in MessageRetries
    /\ retryDelay = DefaultRetryDelay
    /\ store = EmptyMap
    /\ message \in CreatedMessages
    /\ trigger = [IdleTrigger EXCEPT !.snapshot = message]
    /\ treq = IdleMessageRequest
    /\ push = IdlePush
    /\ users = ReceiverDoc

NextMessage ==
    \/ Deliver
    \/ \E ok \in BOOLEAN, receiverLang \in ReceiverLangs : UsersRead(ok, receiverLang)
    \/ \E w \in Slots : WorkerResume(w)
    \/ BatchSettle
    \/ BatchReturned
    \/ \E ok \in BOOLEAN : TriggerUpdateSettled(ok)
    \/ \E ok \in BOOLEAN : TriggerErrorUpdateSettled(ok)
    \/ \E i \in MessageInputs : MessageRequestArrives(i)
    \/ MessageTokenVerified
    \/ \E ok \in BOOLEAN : MessageRead(ok)
    \/ \E ok \in BOOLEAN : RoomRead(ok)
    \/ MessageTranslateSettled
    \/ \E ok \in BOOLEAN : MessageRequestUpdateSettled(ok)
    \/ \E c \in Slots : ProviderSucceed(c, FALSE) /\ UNCHANGED reqs
    \/ \E c \in Slots, e \in MessageErrors : ProviderFail(c, e) /\ UNCHANGED reqs
    \/ \E c \in Slots : WakeUp(c) /\ UNCHANGED reqs

SpecMessage == InitMessage /\ [][NextMessage]_vars

(***************************************************************************)
(* SpecPush: one created-event handled by onNewChatMessage.  The get() of   *)
(* the receiver's document and the send may fail; send fails with one of    *)
(* the codes of FcmResults.                                                 *)
(***************************************************************************)
FrameButPush ==
    <<now, maxRetries, retryDelay, prompt, cache, calls, batch, store, reqs, sweep,
      message, trigger, treq>>

ValidPushMessage ==
    [senderId |-> "customer", receiverId |-> "driver", messageText |-> ShortText,
     senderName |-> "Ann"]
PushMessages ==
    {[ValidPushMessage EXCEPT !.senderId = s, !.receiverId = r, !.messageText = t,
                              !.senderName = n] :
        s \in {"customer", "system"}, r \in {"driver", ""},
        t \in {<<>>, ShortText, PushText}, n \in {"Ann", ""}}
UserDocs ==
    {ReceiverDoc,
     [ReceiverDoc EXCEPT !.fcmToken = ""],
     [ReceiverDoc EXCEPT !.exists = FALSE, !.fcmToken = ""]}
FcmResults == {"sent", "messaging/internal-error"} \cup InvalidTokenCodes

\* the created-event is delivered
NewChatMessage(hasSnapshot, messageData) ==
    /\ push.pc = "idle"
    /\ push' = onNewChatMessageBegin(hasSnapshot, messageData)
    /\ UNCHANGED <<FrameButPush, users>>

\* db.collection('users').doc(receiverId).get() settled
PushUserRead(ok) ==
    /\ push.pc = "userGet"
    /\ push' = onNewChatMessageUserRead(push, users, ok)
    /\ UNCHANGED <<FrameButPush, users>>

\* admin.messaging().send(message) settled
PushSendSettled(result, ok) ==
    /\ push.pc = "sending"
    /\ LET st == onNewChatMessageSent(push, users, result, ok)
       IN  /\ push' = st.push
           /\ users' = st.users
    /\ UNCHANGED FrameButPush

InitPush ==
    /\ now = 0
    /\ prompt = FirstPrompt
    /\ cache = [s \in Slots |-> EmptyMap]
    /\ calls = [c \in Slots |-> IdleCall]
    /\ batch = IdleBatch
    /\ reqs = [r \in Requests |-> IdleRequest]
    /\ sweep = IdleSweep
    /\ maxRetries = MaxRetriesBound
    /\ retryDelay = DefaultRetryDelay
    /\ store = EmptyMap
    /\ message = NewMessage
    /\ trigger = IdleTrigger
    /\ treq = IdleMessageRequest
    /\ push = IdlePush
    /\ users \in UserDocs

NextPush ==
    \/ \E hasSnapshot \in BOOLEAN, messageData \in PushMessages :
           NewChatMessage(hasSnapshot, messageData)
    \/ \E ok \in BOOLEAN : PushUserRead(ok)
    \/ \E result \in FcmResults, ok \in BOOLEAN : PushSendSettled(result, ok)

SpecPush == InitPush /\ [][NextPush]_vars

(***************************************************************************)
(* SpecRetry: translate, transcribe and generateSpeech called with the same *)
(* maxRetries and retryDelay, and their providers answering alike: each     *)
(* answer is given to every loop that awaits its provider, each round of    *)
(* timers wakes every loop that sleeps.                                     *)
(***************************************************************************)
SttSlot == DirectSlot + 1
TtsSlot == SttSlot + 1

AudioSizes == {MaxAudioSize \div 2, MaxAudioSize, MaxAudioSize + 1}
LoopErrors == {"429", "503", "ETIMEDOUT"}
LoopAnswers == {"ok"} \cup LoopErrors

StartLoops(text, audioSize, language) ==
    /\ \A c \in {DirectSlot, SttSlot, TtsSlot} : calls[c].pc = "idle"
    /\ LET b == translateBegin(DirectSlot, text, "auto", language, cache[DirectSlot], now)
       IN  /\ calls' = [calls EXCEPT ![DirectSlot] = b.call,
                                     ![SttSlot] = transcribeBegin(audioSize, language),
                                     ![TtsSlot] = generateSpeechBegin(text, language)]
           /\ cache' = [cache EXCEPT ![DirectSlot] = b.cache]
    /\ UNCHANGED <<now, maxRetries, retryDelay, prompt, batch, store, reqs, sweep, message,
                   trigger, treq, push, users>>

\* every provider call in flight settles, all of them alike
LoopsAnswered(answer) ==
    /\ \E c \in {DirectSlot, SttSlot, TtsSlot} : calls[c].pc = "calling"
    /\ LET t == calls[DirectSlot]
           s == calls[SttSlot]
           g == calls[TtsSlot]
           r == translateSucceeded(t, cache[DirectSlot], now, FALSE, prompt)
       IN  /\ calls' =
                 [calls EXCEPT
                    ![DirectSlot] = IF t.pc # "calling" THEN t
                                    ELSE IF answer = "ok" THEN r.call
                                    ELSE translateFailed(t, answer, maxRetries, retryDelay),
                    ![SttSlot] = IF s.pc # "calling" THEN s
                                 ELSE IF answer = "ok" THEN transcribeSucceeded(s, ShortText)
                                 ELSE transcribeFailed(s, answer, maxRetries, retryDelay),
                    ![TtsSlot] = IF g.pc # "calling" THEN g
                                 ELSE IF answer = "ok" THEN generateSpeechSucceeded(g)
                                 ELSE generateSpeechFailed(g, answer, maxRetries, retryDelay)]
           /\ cache' = IF t.pc = "calling" /\ answer = "ok"
                       THEN [cache EXCEPT ![DirectSlot] = r.cache] ELSE cache
    /\ UNCHANGED <<now, maxRetries, retryDelay, prompt, batch, store, reqs, sweep, message,
                   trigger, treq, push, users>>

\* the timers of the sleeps fire
LoopsWoke ==
    /\ \E c \in {DirectSlot, SttSlot, TtsSlot} : calls[c].pc = "sleeping"
    /\ calls' = [calls EXCEPT
                    ![DirectSlot] = IF @.pc = "sleeping" THEN translateWoke(@) ELSE @,
                    ![SttSlot] = IF @.pc = "sleeping" THEN transcribeWoke(@) ELSE @,
                    ![TtsSlot] = IF @.pc = "sleeping" THEN generateSpeechWoke(@) ELSE @]
    /\ UNCHANGED <<now, maxRetries, retryDelay, prompt, cache, batch, store, reqs, sweep,
                   message, trigger, treq, push, users>>

InitRetry ==
    /\ InitIdle
    /\ maxRetries \in 0..MaxRetriesBound
    /\ retryDelay \in RetryDelays
    /\ store = EmptyMap

NextRetry ==
    \/ \E text \in DirectTexts, audioSize \in AudioSizes, language \in DirectTargets :
           StartLoops(text, audioSize, language)
    \/ \E answer \in LoopAnswers : LoopsAnswered(answer)
    \/ LoopsWoke

SpecRetry == InitRetry /\ [][NextRetry]_vars

(***************************************************************************)
(* SpecGateway: requests to translate, stt, sttAndTranslate, tts and        *)
(* translateMessage, served one after the other on one Firestore store and  *)
(* one message document.  A request arrives when no other is in flight; the *)
(* record of a request that was answered is dropped (closed) when the next  *)
(* request arrives, and so are the translate calls of the handlers that     *)
(* returned.                                                                *)
(***************************************************************************)
ValidSttForm == [multipart |-> TRUE, audio |-> TRUE, language |-> "en"]
ValidSttEndpointRequest == [method |-> "POST", auth |-> "ok", form |-> ValidSttForm]
SttEndpointInputs ==
    {ValidSttEndpointRequest,
     [ValidSttEndpointRequest EXCEPT !.method = "OPTIONS"],
     [ValidSttEndpointRequest EXCEPT !.method = "GET"],
     [ValidSttEndpointRequest EXCEPT !.auth = "none"],
     [ValidSttEndpointRequest EXCEPT !.auth = "bad"],
     [ValidSttEndpointRequest EXCEPT !.form.multipart = FALSE],
     [ValidSttEndpointRequest EXCEPT !.form.audio = FALSE],
     [ValidSttEndpointRequest EXCEPT !.form.language = ""],
     [ValidSttEndpointRequest EXCEPT !.form.language = "xx"]}

ValidTtsRequest == [method |-> "POST", auth |-> "ok", text |-> ShortText, language |-> "en"]
TtsInputs ==
    {ValidTtsRequest,
     [ValidTtsRequest EXCEPT !.method = "OPTIONS"],
     [ValidTtsRequest EXCEPT !.method = "GET"],
     [ValidTtsRequest EXCEPT !.auth = "none"],
     [ValidTtsRequest EXCEPT !.auth = "bad"],
     [ValidTtsRequest EXCEPT !.text = <<>>],
     [ValidTtsRequest EXCEPT !.text = LongSpeech],
     [ValidTtsRequest EXCEPT !.language = ""],
     [ValidTtsRequest EXCEPT !.language = "xx"]}

ClosedRequest == [IdleRequest EXCEPT !.pc = "closed"]
ClosedMessageRequest == [IdleMessageRequest EXCEPT !.pc = "closed"]

NoneInFlight ==
    /\ \A r \in Requests : reqs[r].pc \in {"idle", "done", "closed"}
    /\ treq.pc \in {"idle", "done", "closed"}

\* the records of the requests answered before are dropped
CloseAnswered(rs) == [q \in Requests |-> IF rs[q].pc = "done" THEN ClosedRequest ELSE rs[q]]

GatewayArrives(r, req) ==
    /\ NoneInFlight
    /\ reqs[r].pc = "idle"
    /\ \A q \in Requests : q < r => reqs[q].pc # "idle"
    /\ reqs' = [CloseAnswered(reqs) EXCEPT ![r] = [req EXCEPT !.prompt = prompt]]
    /\ treq' = IF treq.pc = "done" THEN ClosedMessageRequest ELSE treq
    /\ calls' = [c \in Slots |-> IdleCall]
    /\ UNCHANGED <<now, maxRetries, retryDelay, prompt, cache, batch, store, sweep,
                   message, trigger, push, users>>

GatewayMessageArrives(i) ==
    /\ NoneInFlight
    /\ treq.pc = "idle"
    /\ treq' = translateMessageBegin(i)
    /\ reqs' = CloseAnswered(reqs)
    /\ calls' = [c \in Slots |-> IdleCall]
    /\ UNCHANGED <<now, maxRetries, retryDelay, prompt, cache, batch, store, sweep,
                   message, trigger, push, users>>

\* verifyIdToken settled
GatewayVerified(r) ==
    /\ reqs[r].pc = "verifying"
    /\ reqs' = [reqs EXCEPT ![r] =
                   CASE @.endpoint = "translate"       -> requestVerified(@)
                     [] @.endpoint = "sttAndTranslate" -> sttVerified(@)
                     [] @.endpoint = "stt"             -> sttEndpointVerified(@)
                     [] OTHER                          -> ttsVerified(@)]
    /\ UNCHANGED <<now, maxRetries, retryDelay, prompt, cache, calls, batch, store, sweep,
                   message, trigger, treq, push, users>>

\* parseMultipartFormData settled
GatewayParsed(r, ok) ==
    /\ reqs[r].pc = "parsing"
    /\ reqs' = [reqs EXCEPT ![r] = IF @.endpoint = "stt" THEN sttEndpointParsed(@, ok)
                                    ELSE sttParsed(@, ok)]
    /\ UNCHANGED <<now, maxRetries, retryDelay, prompt, cache, calls, batch, store, sweep,
                   message, trigger, treq, push, users>>

\* transcribe settled
GatewayTranscribed(r, ok, text) ==
    /\ reqs[r].pc = "transcribing"
    /\ reqs' = [reqs EXCEPT ![r] = IF @.endpoint = "stt" THEN sttEndpointTranscribed(@, ok, text)
                                    ELSE sttTranscribed(@, ok, text)]
    /\ UNCHANGED <<now, maxRetries, retryDelay, prompt, cache, calls, batch, store, sweep,
                   message, trigger, treq, push, users>>

\* generateSpeech settled
GatewaySpoken(r, ok) ==
    /\ reqs[r].pc = "speaking"
    /\ reqs' = [reqs EXCEPT ![r] = ttsSpoken(@, ok)]
    /\ UNCHANGED <<now, maxRetries, retryDelay, prompt, cache, calls, batch, store, sweep,
                   message, trigger, treq, push, users>>

\* the provider steps of the translate call of translateMessage
MessageProviderSucceed ==
    /\ treq.pc = "translating"
    /\ ProviderSucceed(MessageSlot, FALSE)
    /\ UNCHANGED reqs

MessageProviderFail(e) ==
    /\ treq.pc = "translating"
    /\ ProviderFail(MessageSlot, e)
    /\ UNCHANGED reqs

MessageWakeUp ==
    /\ treq.pc = "translating"
    /\ WakeUp(MessageSlot)
    /\ UNCHANGED reqs

NextGateway ==
    \/ \E r \in Requests, i \in EndpointInputs :
           GatewayArrives(r, requestBegin(i.method, i.auth, i.text, i.targetLang))
    \/ \E r \in Requests, i \in SttInputs : GatewayArrives(r, sttBegin(i.method, i.auth, i.form))
    \/ \E r \in Requests, i \in SttEndpointInputs :
           GatewayArrives(r, sttEndpointBegin(i.method, i.auth, i.form))
    \/ \E r \in Requests, i \in TtsInputs :
           GatewayArrives(r, ttsBegin(i.method, i.auth, i.text, i.language))
    \/ \E i \in MessageInputs : GatewayMessageArrives(i)
    \/ \E r \in Requests : GatewayVerified(r)
    \/ \E r \in Requests, ok \in BOOLEAN : GatewayParsed(r, ok)
    \/ \E r \in Requests, ok \in BOOLEAN, text \in SttTexts : GatewayTranscribed(r, ok, text)
    \/ \E r \in Requests, ok \in BOOLEAN : GatewaySpoken(r, ok)
    \/ \E r \in Requests, ok \in BOOLEAN : StoreGet(r, ok)
    \/ \E r \in Requests, ok \in BOOLEAN : StoreDelete(r, ok)
    \/ \E r \in Requests, ok \in BOOLEAN : StoreUpdate(r, ok)
    \/ \E r \in Requests : RequestProviderSucceed(r, FALSE)
    \/ \E r \in Requests, e \in EndpointErrors : RequestProviderFail(r, e)
    \/ \E r \in Requests : RequestWakeUp(r)
    \/ \E r \in Requests : TranslateSettled(r)
    \/ \E r \in Requests, ok \in BOOLEAN : StoreSet(r, ok)
    \/ MessageTokenVerified
    \/ \E ok \in BOOLEAN : MessageRead(ok)
    \/ \E ok \in BOOLEAN : RoomRead(ok)
    \/ MessageProviderSucceed
    \/ \E e \in EndpointErrors : MessageProviderFail(e)
    \/ MessageWakeUp
    \/ MessageTranslateSettled
    \/ \E ok \in BOOLEAN : MessageRequestUpdateSettled(ok)
    \/ TickDays

SpecGateway == InitEndpoint /\ [][NextGateway]_vars

(***************************************************************************)
(* Properties.                                                              *)
(***************************************************************************)
Elements(seq) == {seq[i] : i \in 1..Len(seq)}
InFlight == {c \in Slots : calls[c].pc = "calling"}
DirectCall == calls[DirectSlot]
Events(r) == Elements(reqs[r].trace)
SameKey(r, s) == reqs[r].text = reqs[s].text /\ reqs[r].targetLang = reqs[s].targetLang
AnsweredFromCache(r) ==
    reqs[r].pc = "done" /\ reqs[r].status = 200 /\ reqs[r].body.cached
\* every b in tr has an a before it
Precedes(tr, a, b) ==
    \A i \in 1..Len(tr) : tr[i] = b => \E j \in 1..(i - 1) : tr[j] = a

\* C1 (SpecBatch): with maxConcurrent >= 1, the translateWithOpenAI calls of
\* the batch that are in flight are never more than maxConcurrent.
C1_BoundedConcurrency ==
    batch.maxConcurrent >= 1 => Cardinality(InFlight) <= batch.maxConcurrent

\* limit 2 reached with more variants than the limit
C1_Witness ==
    /\ batch.pc = "running"
    /\ batch.maxConcurrent = 2
    /\ Len(batch.targetLangs) > 2
    /\ Cardinality(InFlight) = 2

\* C2 (SpecBatch): when translateBatch has resolved, every variant of
\* targetLangs has an entry in the map it returns.
C2_EveryVariantRecorded ==
    batch.pc = "resolved" =>
        \A i \in 1..Len(batch.targetLangs) : batch.targetLangs[i] \in DOMAIN batch.results

\* C3 (SpecBatch): translateBatch never rejects; a variant whose translate
\* call failed on every attempt holds an error record, no other variant holds
\* one, and every variant whose inference succeeded holds its result.
C3_BatchIsolation ==
    /\ batch.pc # "rejected"
    /\ batch.pc = "resolved" =>
          /\ \A v \in DOMAIN batch.ended :
                /\ batch.ended[v] = "failed" =>
                      /\ v \in DOMAIN batch.results
                      /\ batch.results[v].kind = "errorRecord"
                /\ batch.ended[v] = "inferred" =>
                      /\ v \in DOMAIN batch.results
                      /\ batch.results[v].kind = "result"
                      /\ batch.results[v].text = Translated(batch.text, v)
          /\ \A v \in DOMAIN batch.results :
                batch.results[v].kind = "errorRecord" =>
                    v \in DOMAIN batch.ended /\ batch.ended[v] = "failed"

\* variants [a, b, c], b failed and a and c succeeded
C3_Witness ==
    /\ batch.pc = "resolved"
    /\ Len(batch.targetLangs) = 3
    /\ DOMAIN batch.ended = Elements(batch.targetLangs)
    /\ batch.ended[batch.targetLangs[1]] = "inferred"
    /\ batch.ended[batch.targetLangs[2]] = "failed"
    /\ batch.ended[batch.targetLangs[3]] = "inferred"

\* C4 (Spec): a translate call whose first provider failure is an
\* authentication failure or a malformed-input failure has made one attempt,
\* has failed and has not slept.
C4_NoRetryOfAuthOrMalformed ==
    (Len(DirectCall.fails) >= 1 /\ DirectCall.fails[1] \in AuthErrors \cup MalformedErrors) =>
        /\ DirectCall.pc = "thrown"
        /\ DirectCall.invoked = 1
        /\ DirectCall.sleeps = <<>>

\* C5 (Spec): a translate call that returned after k transient failures has
\* k <= maxRetries, made k + 1 attempts, returned the translation and slept
\* retryDelay * 2^i for i = 0..k-1, in that order and no more.
C5_RetryThenSuccess ==
    LET k == Len(DirectCall.fails)
    IN  (/\ DirectCall.pc = "returned"
         /\ DirectCall.invoked >= 1
         /\ Elements(DirectCall.fails) \subseteq TransientErrors) =>
            /\ k <= maxRetries
            /\ DirectCall.invoked = k + 1
            /\ DirectCall.outcome.kind = "result"
            /\ DirectCall.outcome.text = Translated(DirectCall.text, DirectCall.targetLang)
            /\ Len(DirectCall.sleeps) = k
            /\ \A i \in 1..k : DirectCall.sleeps[i] = retryDelay * (2 ^ (i - 1))
            /\ k = 2 => DirectCall.sleeps[1] + DirectCall.sleeps[2] = retryDelay + 2 * retryDelay

\* two transient failures, then the success
C5_Witness ==
    /\ DirectCall.pc = "returned"
    /\ DirectCall.fails = <<"503", "503">>
    /\ DirectCall.invoked = 3
    /\ DirectCall.sleeps = <<retryDelay, 2 * retryDelay>>

\* C6 (Spec): a translate call never makes more than maxRetries + 1 attempts;
\* when every attempt failed with a transient failure the call made exactly
\* maxRetries + 1 attempts and threw an error that carries the last failure
\* and the attempt count.
C6_ExhaustedRejects ==
    LET n == Len(DirectCall.fails)
    IN  /\ DirectCall.invoked <= maxRetries + 1
        /\ (/\ CallSettled(DirectCall)
            /\ n >= 1
            /\ n = DirectCall.invoked
            /\ Elements(DirectCall.fails) \subseteq TransientErrors) =>
               /\ DirectCall.pc = "thrown"
               /\ DirectCall.invoked = maxRetries + 1
               /\ DirectCall.outcome.kind = "error"
               /\ DirectCall.outcome.message = ErrorMessage(DirectCall.fails[n])
               /\ DirectCall.outcome.attempts = maxRetries + 1
        /\ (n = maxRetries + 1 /\ Elements(DirectCall.fails) \subseteq TransientErrors) =>
               DirectCall.pc = "thrown"

\* three transient failures with maxRetries = 2
C6_Witness ==
    /\ maxRetries = 2
    /\ DirectCall.pc = "thrown"
    /\ DirectCall.fails = <<"503", "ETIMEDOUT", "503">>
    /\ DirectCall.invoked = 3

\* C7 (SpecEndpoint): a request whose translate call failed has written neither
\* cache and is answered 500; every Firestore document was written by a
\* request whose inference succeeded, and so was every answer from the cache;
\* every other request that passed validation has invoked inference.
C7_FailuresNeverCached ==
    /\ \A r \in Requests : calls[r].pc = "thrown" =>
          /\ "memoryWrite" \notin Events(r)
          /\ "durableWrite" \notin Events(r)
          /\ getCacheKey(calls[r].text, calls[r].targetLang) \notin DOMAIN cache[r]
          /\ reqs[r].pc = "done" => reqs[r].status = 500
    /\ \A k \in DOMAIN store : \E r \in Requests :
          /\ k = generateCacheKey(reqs[r].text, reqs[r].targetLang)
          /\ calls[r].pc = "returned"
          /\ "durableWrite" \in Events(r)
          /\ store[k].translatedText = calls[r].outcome.text
    /\ \A r \in Requests : AnsweredFromCache(r) =>
          \E s \in Requests \ {r} :
              /\ SameKey(r, s)
              /\ calls[s].pc = "returned"
              /\ "durableWrite" \in Events(s)
    /\ \A r \in Requests :
          (reqs[r].pc \in {"translating", "cacheSet"}
             \/ (reqs[r].pc = "done" /\ reqs[r].status \in {200, 500} /\ ~AnsweredFromCache(r))) =>
              calls[r].invoked >= 1

\* a request failed, nothing is cached, an identical request is at inference
C7_Witness ==
    \E r, s \in Requests :
        /\ r # s
        /\ SameKey(r, s)
        /\ reqs[r].pc = "done" /\ reqs[r].status = 500 /\ calls[r].pc = "thrown"
        /\ store = EmptyMap
        /\ reqs[s].pc = "translating" /\ calls[s].pc = "calling"

\* C8 (SpecEndpoint): a request reads the in-memory cache before the durable
\* cache and invokes inference after both.
C8_MemoryThenDurableThenInference ==
    \A r \in Requests :
        /\ Precedes(reqs[r].trace, "memoryRead", "durableRead")
        /\ Precedes(reqs[r].trace, "durableRead", "inference")
        /\ Precedes(reqs[r].trace, "memoryRead", "inference")

\* C9 (SpecEndpoint): once a request is answered from the durable cache, an
\* in-memory cache of the process holds the translation under its key.
C9_DurableHitPopulatesMemory ==
    \A r \in Requests : AnsweredFromCache(r) =>
        \E s \in Slots :
            LET key == getCacheKey(reqs[r].text, reqs[r].targetLang)
            IN  /\ key \in DOMAIN cache[s]
                /\ cache[s][key].data.text = reqs[r].body.translatedText

\* C10 (Spec): a translate call with sourceLang equal to targetLang has
\* returned null and has not invoked inference.
C10_SameLanguageNoOp ==
    (DirectCall.pc # "idle" /\ DirectCall.sourceLang = DirectCall.targetLang) =>
        /\ DirectCall.pc = "returned"
        /\ DirectCall.outcome = Null
        /\ DirectCall.invoked = 0

\* null is returned while the cache holds a fresh translation for the key
C10_Witness ==
    LET key == getCacheKey(DirectCall.text, DirectCall.targetLang)
    IN  /\ DirectCall.sourceLang = DirectCall.targetLang
        /\ DirectCall.pc = "returned"
        /\ DirectCall.outcome = Null
        /\ key \in DOMAIN cache[1]
        /\ ~CacheExpired(cache[1][key], now)

\* the Firestore document id of a request
RequestKey(r) == generateCacheKey(reqs[r].text, reqs[r].targetLang)
\* now > createdAt + 30 days, for the document and the time a request read
ReadExpired(r) ==
    reqs[r].readAt > reqs[r].found.createdAt + cacheExpirationDays * DaySeconds

\* C11 (SpecEndpoint), as stated: a document answered as a hit was not
\* expired when getTranslation read it, and when getTranslation leaves the
\* delete of an expired document it returns null and the document is absent.
C11_ExpiredReadMissesAndDeletes ==
    /\ [](\A r \in Requests : AnsweredFromCache(r) => ~ReadExpired(r))
    /\ [][\A r \in Requests :
            (reqs[r].pc = "cacheDelete" /\ reqs'[r].pc # "cacheDelete") =>
                /\ reqs'[r].cachedTranslation = Null
                /\ generateCacheKey(reqs[r].text, reqs[r].targetLang) \notin DOMAIN store']_vars

\* C11 (SpecEndpoint), amended: a document read after its expiry goes to the
\* delete and is answered as a miss, never as a hit; the document is absent
\* afterwards when the delete succeeded (a failed delete is swallowed).
C11_ExpiredReadMisses ==
    /\ [](\A r \in Requests :
            /\ AnsweredFromCache(r) => ~ReadExpired(r)
            /\ reqs[r].pc = "cacheUpdate" => ~ReadExpired(r)
            /\ reqs[r].pc = "cacheDelete" => ReadExpired(r))
    /\ [][\A r \in Requests :
            (reqs[r].pc = "cacheDelete" /\ reqs'[r].pc # "cacheDelete") =>
                /\ reqs'[r].cachedTranslation = Null
                /\ reqs'[r].pc = "translating"
                /\ "durableDelete" \in Elements(reqs'[r].trace) =>
                      generateCacheKey(reqs[r].text, reqs[r].targetLang) \notin DOMAIN store']_vars

\* an expired document was read, deleted and answered as a miss
C11_Witness ==
    \E r \in Requests :
        /\ "durableDelete" \in Events(r)
        /\ reqs[r].found # Null /\ ReadExpired(r)
        /\ reqs[r].cachedTranslation = Null
        /\ reqs[r].pc = "translating"
        /\ RequestKey(r) \notin DOMAIN store

\* C12 (SpecEndpoint): no step changes the createdAt of a document that stays
\* in the store, and no step lowers its accessCount.
C12_CreatedAtFixedAccessCountGrows ==
    [][\A k \in (DOMAIN store) \cap (DOMAIN store') :
          /\ store'[k].createdAt = store[k].createdAt
          /\ store'[k].accessCount >= store[k].accessCount]_vars

\* C13 (SpecEndpoint): a request whose inference succeeded is answered 200
\* with the text its translate call returned and cached: false, also when
\* the set() of setTranslation failed.
C13_WriteFailureSwallowed ==
    \A r \in Requests :
        (reqs[r].pc = "done" /\ calls[r].pc = "returned") =>
            /\ reqs[r].status = 200
            /\ reqs[r].body.translatedText = calls[r].outcome.text
            /\ reqs[r].body.cached = FALSE

\* the write failed: the request is answered 200 and the store holds nothing
C13_Witness ==
    \E r \in Requests :
        /\ reqs[r].pc = "done" /\ calls[r].pc = "returned"
        /\ "durableWrite" \notin Events(r)
        /\ reqs[r].status = 200
        /\ reqs[r].body.translatedText = Translated(reqs[r].text, reqs[r].targetLang)
        /\ RequestKey(r) \notin DOMAIN store

\* C14 (SpecEndpoint): requests served under different prompts have different
\* cache keys, and a translation answered from the cache was made with the
\* prompt of the code that serves the request.
C14_KeyChangesWithPrompt ==
    \A r \in Requests :
        /\ \A s \in Requests :
              (reqs[r].pc # "idle" /\ reqs[s].pc # "idle" /\ reqs[r].prompt # reqs[s].prompt) =>
                  RequestKey(r) # RequestKey(s)
        /\ AnsweredFromCache(r) => reqs[r].body.translatedText.prompt = reqs[r].prompt

\* C15 (Spec): a translate call answered from the in-memory cache returns
\* the translation of its own text into its own target.
C15_HitIsOfSameText ==
    (DirectCall.pc = "returned" /\ DirectCall.invoked = 0 /\ DirectCall.outcome # Null) =>
        /\ DirectCall.outcome.text.src = DirectCall.text
        /\ DirectCall.outcome.text.lang = DirectCall.targetLang

\* C16 (SpecEndpoint): a request whose translate call failed with 429 on
\* every attempt is answered 429, and one whose call failed with 401 on every
\* attempt is answered with the API configuration error.
C16_FailureKindKept ==
    \A r \in Requests :
        (reqs[r].pc = "done" /\ calls[r].pc = "thrown") =>
            /\ Elements(calls[r].fails) = {"429"} =>
                  reqs[r].status = 429 /\ reqs[r].body.error = "Rate limit exceeded"
            /\ Elements(calls[r].fails) = {"401"} =>
                  reqs[r].status = 500 /\ reqs[r].body.error = "API configuration error"

\* a document of the store as one request wrote it
WrittenBy(doc, r) ==
    /\ "durableWrite" \in Events(r)
    /\ doc.text = reqs[r].text
    /\ doc.targetLang = reqs[r].targetLang
    /\ doc.translatedText = reqs[r].translatedText

\* C17 (SpecEndpoint): every request that missed the cache makes its own
\* translate call, with its own inference, whatever the other requests for
\* the same text and target are doing; the documents the store holds are
\* each the document one request wrote.
C17_NoInFlightDeduplication ==
    /\ \A r \in Requests :
          reqs[r].pc \in {"translating", "cacheSet"} =>
              /\ "inference" \in Events(r)
              /\ calls[r].invoked >= 1
              /\ calls[r].text = reqs[r].text /\ calls[r].targetLang = reqs[r].targetLang
    /\ \A k \in DOMAIN store : \E r \in Requests : k = RequestKey(r) /\ WrittenBy(store[k], r)

\* two requests for one pair both found no document, both inferred and both
\* were answered 200; the store holds the translation
C17_Witness ==
    \E r, s \in Requests :
        /\ r # s /\ SameKey(r, s)
        /\ reqs[r].found = Null /\ reqs[s].found = Null
        /\ calls[r].invoked >= 1 /\ calls[s].invoked >= 1
        /\ reqs[r].pc = "done" /\ reqs[r].status = 200 /\ ~reqs[r].body.cached
        /\ reqs[s].pc = "done" /\ reqs[s].status = 200 /\ ~reqs[s].body.cached
        /\ "durableWrite" \in Events(r) /\ "durableWrite" \in Events(s)
        /\ RequestKey(r) \in DOMAIN store
        /\ store[RequestKey(r)].translatedText = Translated(reqs[r].text, reqs[r].targetLang)

\* the update() of request r's getTranslation has counted an access
Touched(r) == "durableTouch" \in Events(r)

\* C18 (SpecEndpoint), as stated: a set() that commits leaves the document of
\* its own call, whole; every document of the store is the document of one
\* call; a getTranslation that follows reads that document and returns its
\* translatedText.
C18_LastWriteWinsAndIsReturned ==
    /\ [](\A k \in DOMAIN store :
            /\ k = generateCacheKey(store[k].text, store[k].targetLang)
            /\ \E r \in Requests : WrittenBy(store[k], r))
    /\ [][\A r \in Requests :
            /\ (reqs[r].pc = "cacheSet" /\ "durableWrite" \in Elements(reqs'[r].trace)) =>
                  /\ RequestKey(r) \in DOMAIN store'
                  /\ store'[RequestKey(r)].text = reqs[r].text
                  /\ store'[RequestKey(r)].targetLang = reqs[r].targetLang
                  /\ store'[RequestKey(r)].translatedText = reqs[r].translatedText
            /\ (reqs[r].pc = "cacheGet" /\ reqs'[r].pc # "cacheGet"
                  /\ RequestKey(r) \in DOMAIN store
                  /\ now <= store[RequestKey(r)].createdAt + cacheExpirationDays * DaySeconds) =>
                  reqs'[r].pc = "cacheUpdate" /\ reqs'[r].found = store[RequestKey(r)]
            /\ (reqs[r].pc = "cacheUpdate" /\ reqs'[r].pc # "cacheUpdate") =>
                  reqs'[r].cachedTranslation = reqs[r].found.translatedText]_vars

\* C18 (SpecEndpoint), amended: a set() that commits leaves the document of
\* its own call, whole; every document of the store is the document of one
\* call; a get() that follows and succeeds reads that document, and
\* getTranslation returns its translatedText when its update() succeeded and
\* null when it failed.
C18_LastWriteWins ==
    /\ [](\A k \in DOMAIN store :
            /\ k = generateCacheKey(store[k].text, store[k].targetLang)
            /\ \E r \in Requests : WrittenBy(store[k], r))
    /\ [][\A r \in Requests :
            /\ (reqs[r].pc = "cacheSet" /\ "durableWrite" \in Elements(reqs'[r].trace)) =>
                  /\ RequestKey(r) \in DOMAIN store'
                  /\ store'[RequestKey(r)].text = reqs[r].text
                  /\ store'[RequestKey(r)].targetLang = reqs[r].targetLang
                  /\ store'[RequestKey(r)].translatedText = reqs[r].translatedText
            /\ (reqs[r].pc = "cacheGet" /\ reqs'[r].pc = "cacheUpdate") =>
                  reqs'[r].found = store[RequestKey(r)]
            /\ (reqs[r].pc = "cacheUpdate" /\ Touched(r)') =>
                  /\ reqs'[r].cachedTranslation = reqs[r].found.translatedText
                  /\ store'[RequestKey(r)].accessCount = store[RequestKey(r)].accessCount + 1
            /\ (reqs[r].pc = "cacheUpdate" /\ reqs'[r].pc # "cacheUpdate" /\ ~Touched(r)') =>
                  reqs'[r].cachedTranslation = Null]_vars

\* two requests wrote different translations for one key; the store holds one
C18_Witness ==
    \E r, s \in Requests :
        /\ r # s /\ SameKey(r, s)
        /\ "durableWrite" \in Events(r) /\ "durableWrite" \in Events(s)
        /\ reqs[r].translatedText # reqs[s].translatedText
        /\ RequestKey(s) \in DOMAIN store
        /\ store[RequestKey(s)].translatedText = reqs[s].translatedText

\* C19 (SpecEndpoint): a POST without a token, or with a token that fails
\* verification, is never answered 401.
C19_GuestsAreServed ==
    \A r \in Requests :
        (reqs[r].pc = "done" /\ reqs[r].method = "POST" /\ reqs[r].auth \in {"none", "bad"}) =>
            reqs[r].status # 401

\* C20 (SpecEndpoint), as stated: starting from the empty store, a request
\* that finds no document invokes inference, and a request that finds a
\* stored document (not expired) is answered from the cache with the stored
\* translation and does not invoke inference.
C20_SecondRequestHits ==
    \A r \in Requests :
        reqs[r].pc \in {"translating", "cacheSet", "done"} =>
            /\ ("durableRead" \in Events(r) /\ reqs[r].found = Null) => "inference" \in Events(r)
            /\ (reqs[r].found # Null /\ ~ReadExpired(r)) =>
                  /\ "inference" \notin Events(r)
                  /\ AnsweredFromCache(r)
                  /\ reqs[r].body.translatedText = reqs[r].found.translatedText

\* C20 (SpecEndpoint), amended: starting from the empty store, a request that
\* finds no document invokes inference and, when the inference succeeded,
\* hands its text to setTranslation; a request that found a stored document
\* with a non-empty translation, and whose update() succeeded, is answered
\* from the cache with the stored translation and has not invoked inference.
C20_StoredTranslationHits ==
    \A r \in Requests :
        /\ reqs[r].pc \in {"translating", "cacheSet", "done"} =>
              /\ ("durableRead" \in Events(r) /\ reqs[r].found = Null) =>
                    "inference" \in Events(r)
              /\ (reqs[r].found # Null /\ Touched(r) /\ TruthyText(reqs[r].found.translatedText)) =>
                    /\ ~ReadExpired(r)
                    /\ AnsweredFromCache(r)
                    /\ reqs[r].body.translatedText = reqs[r].found.translatedText
                    /\ "inference" \notin Events(r)
                    /\ calls[r].invoked = 0
        /\ (reqs[r].pc = "cacheSet" /\ calls[r].pc = "returned") =>
              reqs[r].translatedText = calls[r].outcome.text

\* the first request inferred and stored, the second was answered from the
\* cache with the same translation and without a translate call
C20_Witness ==
    \E r, s \in Requests :
        /\ r # s /\ SameKey(r, s)
        /\ reqs[r].found = Null /\ "inference" \in Events(r) /\ "durableWrite" \in Events(r)
        /\ reqs[r].pc = "done" /\ reqs[r].status = 200
        /\ AnsweredFromCache(s)
        /\ reqs[s].body.translatedText = reqs[r].body.translatedText
        /\ calls[s].pc = "idle"

\* a translate call begins and reads the in-memory cache
C21_Read ==
    LET call == calls'[DirectSlot]
        key  == getCacheKey(call.text, call.targetLang)
        c    == cache[DirectSlot]
    IN  (/\ calls[DirectSlot].pc \in {"idle", "returned", "thrown"}
         /\ calls' # calls
         /\ call.sourceLang # call.targetLang)
        => /\ (key \in DOMAIN c /\ now - c[key].timestamp <= cacheTTL)
                 => /\ call.pc = "returned"
                    /\ call.invoked = 0
                    /\ call.outcome = c[key].data
                    /\ cache' = cache
           /\ (key \in DOMAIN c /\ now - c[key].timestamp > cacheTTL)
                 => /\ call.pc = "calling"
                    /\ key \notin DOMAIN cache'[DirectSlot]
                    /\ \A k \in (DOMAIN c) \ {key} :
                          k \in DOMAIN cache'[DirectSlot] /\ cache'[DirectSlot][k] = c[k]
           /\ key \notin DOMAIN c => call.pc = "calling" /\ cache' = cache

\* the timestamp of an entry changes only when setCache writes it
C21_NoExtension ==
    \A k \in DOMAIN cache[DirectSlot] \cap DOMAIN cache'[DirectSlot] :
        cache'[DirectSlot][k].timestamp # cache[DirectSlot][k].timestamp
            => calls[DirectSlot].pc = "calling" /\ calls'[DirectSlot].pc = "returned"

\* C21 (Spec): a translate call that reads the in-memory cache is answered
\* with the entry of its key while now minus the entry's timestamp is at most
\* cacheTTL, and then the cache is left as it was; the first read later than
\* that is a miss (inference is invoked) and the entry is gone; no step but
\* the write after a successful inference changes the timestamp of an entry.
C21_MemoryEntryLifetime == [][C21_Read /\ C21_NoExtension]_vars

\* an entry read at exactly cacheTTL after its insertion was a hit and is
\* still in the cache with the timestamp of its insertion
C21_Witness ==
    /\ DirectCall.pc = "returned"
    /\ DirectCall.invoked = 0
    /\ DirectCall.outcome # Null
    /\ now - DirectCall.outcome.at = cacheTTL
    /\ now - cache[DirectSlot][getCacheKey(DirectCall.text, DirectCall.targetLang)].timestamp = cacheTTL

\* C22 (SpecEndpoint): in every 200 answer of the translate endpoint, cached
\* is true exactly when the request invoked no inference, and false exactly
\* when the request invoked inference.
C22_CachedFlagTellsInference ==
    \A r \in Requests :
        (reqs[r].pc = "done" /\ reqs[r].status = 200)
            => /\ reqs[r].body.cached <=> calls[r].invoked = 0
               /\ reqs[r].body.cached <=> "inference" \notin Events(r)

\* one request answered from the store and one answered by inference
C22_Witness ==
    \E r, s \in Requests :
        /\ reqs[r].pc = "done" /\ reqs[r].status = 200 /\ reqs[r].body.cached
        /\ calls[r].invoked = 0
        /\ reqs[s].pc = "done" /\ reqs[s].status = 200 /\ ~reqs[s].body.cached
        /\ calls[s].invoked >= 1

\* C24 (Spec): a translate call whose provider failures are transient and
\* hold a timeout invokes inference at most maxRetries + 1 times, sleeps
\* retryDelay * 2^i after its failure number i + 1 whatever the kind of the
\* failure, and is given up only when maxRetries + 1 attempts have failed.
C24_TimeoutsShareTheBudget ==
    LET c == DirectCall
    IN  (/\ "ETIMEDOUT" \in Elements(c.fails)
         /\ Elements(c.fails) \subseteq TransientErrors)
        => /\ c.invoked <= maxRetries + 1
           /\ c.invoked = Len(c.fails) + (IF c.pc \in {"calling", "returned"} THEN 1 ELSE 0)
           /\ Len(c.sleeps) = Min(Len(c.fails), maxRetries)
           /\ \A i \in 1..Len(c.sleeps) : c.sleeps[i] = retryDelay * Pow2(i - 1)
           /\ c.pc = "thrown" => Len(c.fails) = maxRetries + 1
           /\ c.pc = "sleeping" => Len(c.fails) <= maxRetries

\* timeouts and another transient failure used up the budget of three attempts
C24_Witness ==
    /\ DirectCall.pc = "thrown"
    /\ maxRetries = 2
    /\ DirectCall.invoked = 3
    /\ DirectCall.fails[1] = "ETIMEDOUT"
    /\ DirectCall.fails[2] = "503"
    /\ DirectCall.fails[3] = "ETIMEDOUT"
    /\ DirectCall.sleeps = <<retryDelay, 2 * retryDelay>>

\* worker w takes a variant from the queue in this step
C27_Took(w) ==
    /\ batch'.workers[w].pc = "awaiting"
    /\ batch.pc = "running" => batch'.workers[w] # batch.workers[w]

\* the queue the step starts from
C27_QueueBefore == IF batch.pc = "idle" THEN batch'.targetLangs ELSE batch.queue

\* what one step does to the queue and to the workers
C27_Step ==
    LET takers  == {w \in Slots : C27_Took(w)}
        removed == Len(C27_QueueBefore) - Len(batch'.queue)
    IN  /\ removed >= 0
        /\ batch'.queue = SubSeq(C27_QueueBefore, removed + 1, Len(C27_QueueBefore))
        /\ \A w \in takers :
              /\ \E i \in 1..removed : C27_QueueBefore[i] = batch'.workers[w].lang
              /\ \A v \in takers \ {w} : batch'.workers[v].lang # batch'.workers[w].lang
              /\ batch'.workers[w].lang \notin DOMAIN batch.ended
              /\ \A v \in Slots \ takers :
                    batch.workers[v].pc = "awaiting" => batch.workers[v].lang # batch'.workers[w].lang
              /\ calls'[w].targetLang = batch'.workers[w].lang
              /\ calls'[w].text = batch'.text
              /\ (batch.pc = "running" /\ batch.workers[w].pc = "awaiting") => CallSettled(calls[w])
        /\ Cardinality(takers) <= removed
        /\ \A w \in Slots \ takers :
              (batch.pc = "running" /\ batch.workers[w].pc = "awaiting")
                  => (batch'.workers[w] = batch.workers[w] \/ CallSettled(calls[w]))

\* who holds the variants that have left the queue
C27_State ==
    /\ \A w \in Slots :
          batch.workers[w].pc = "awaiting"
              => /\ batch.workers[w].lang \notin Elements(batch.queue)
                 /\ \A v \in Slots \ {w} :
                       batch.workers[v].pc = "awaiting" => batch.workers[v].lang # batch.workers[w].lang
    /\ \A l \in Elements(batch.targetLangs) \ Elements(batch.queue) :
          TruthyLang(l) =>
              LET holders == {w \in Slots : batch.workers[w].pc = "awaiting" /\ batch.workers[w].lang = l}
              IN  IF l \in DOMAIN batch.ended THEN holders = {} ELSE Cardinality(holders) = 1

C26_MemoryCacheAbsorbsRepeats ==
    [][\A r, s \in Requests :
          (/\ r # s
           /\ reqs[s].pc # "translating"
           /\ reqs'[s].pc = "translating"
           /\ calls[r].pc = "returned"
           /\ calls[r].outcome # Null
           /\ calls[r].text = reqs'[s].text
           /\ calls[r].targetLang = reqs'[s].targetLang
           /\ now - calls[r].outcome.at <= cacheTTL)
          => /\ calls'[s].pc = "returned"
             /\ calls'[s].invoked = 0
             /\ calls'[s].outcome = calls[r].outcome]_vars

\* the entries a step removed from the store
C23_Deleted == (DOMAIN store) \ (DOMAIN store')

\* C23 (SpecSweep): when cleanupExpiredCache returns, the entries it deleted
\* are exactly the entries whose createdAt is before its expirationDate (now
\* minus 30 days), it returns their number, none of them is an entry
\* getTranslation would answer as a hit at that instant, and every other
\* entry is as it was.
C23_SweepDeletesExactlyTheExpired ==
    [][(sweep.pc # "done" /\ sweep'.pc = "done")
       => /\ C23_Deleted = {k \in DOMAIN store : store[k].createdAt < sweep.expirationDate}
          /\ sweep'.returned = Cardinality(C23_Deleted)
          /\ \A k \in C23_Deleted : now > store[k].createdAt + cacheExpirationDays * DaySeconds
          /\ \A k \in DOMAIN store' : store'[k] = store[k]]_vars

\* C25 (SpecStt): a request to sttAndTranslate whose source and target
\* languages are the same reads no cache tier and writes no cache entry, and
\* the store never holds an entry whose translatedText is the untranslated
\* input text.
C25_SameLanguageTouchesNoCache ==
    /\ \A r \in Requests :
          (/\ reqs[r].endpoint = "sttAndTranslate"
           /\ TruthyLang(reqs[r].targetLang)
           /\ reqs[r].sourceLang = reqs[r].targetLang)
          => Events(r) \cap {"durableRead", "durableTouch", "durableDelete", "memoryRead",
                             "memoryWrite", "durableWrite"} = {}
    /\ \A k \in DOMAIN store : store[k].translatedText # Original(store[k].text)

\* the languages of the batch that hold a translation
C28_Translated == {l \in DOMAIN trigger.translations : HasText(trigger.translations[l])}

\* C28 (SpecMessage): when onMessageCreate has chosen translatedText and at
\* least one target language of the batch was translated, translatedText is
\* not null: it is the English translation when there is one, else the
\* Japanese one when there is one, else the text of another language that
\* was translated.
C28_TranslatedTextIsASuccess ==
    (trigger.pc = "update" /\ C28_Translated # {})
        => /\ trigger.translatedText # Null
           /\ \E l \in C28_Translated : trigger.translatedText = trigger.translations[l].text
           /\ "en" \in C28_Translated => trigger.translatedText = trigger.translations["en"].text
           /\ ("en" \notin C28_Translated /\ "ja" \in C28_Translated)
                 => trigger.translatedText = trigger.translations["ja"].text

\* C29 (SpecMessage): translateMessage never answers cached: true with an
\* error record as the translation: a request for a language whose entry in
\* the message's translations is an error record invokes inference.
C29_ErrorRecordNotServedAsCached ==
    (treq.pc = "done" /\ treq.status = 200 /\ treq.body.cached)
        => treq.body.translation.kind = "result"

\* C30 (SpecMessage): a delivery of the created-event that finds the message
\* translated by an earlier delivery invokes no inference and writes nothing
\* to the document.
C30_SecondDeliveryDoesNothing ==
    (trigger.delivery >= 2 /\ trigger.translated) => trigger.trace = <<>>

\* C31 (SpecMessage): onMessageCreate never rejects: whatever step fails
\* inside the handler, an invocation that has ended has returned a value
\* (skipped, success, or success: false), it has not thrown.
C31_HandlerNeverRejects ==
    trigger.pc = "done" => trigger.outcome \in {"skipped", "success", "failure"}

\* getTranslation of request r returns in this step
C33_Returns(r) ==
    /\ reqs[r].pc \in {"cacheGet", "cacheDelete", "cacheUpdate"}
    /\ reqs'[r].pc \notin {"cacheGet", "cacheDelete", "cacheUpdate"}

\* request r got nothing it can answer from getTranslation and goes on to
\* translateText
C33_WentOn(r) ==
    /\ reqs'[r].pc = "translating"
    /\ ~TruthyText(reqs'[r].cachedTranslation)
    /\ reqs'[r].status = 0
    /\ "inference" \in Elements(reqs'[r].trace)

\* C33 (SpecEndpoint): getTranslation never rejects.  Every step in which it
\* returns either answers the request from the cache, after the access
\* update of a fresh entry was made, or is taken for a miss: the request goes
\* on to inference with cachedTranslation null, whatever failed in the
\* durable store (the read, the deletion of the expired entry or the access
\* update), also when a fresh entry was found.  No step of the lookup ends
\* the request with an error.
C33_StoreFailureIsAMiss ==
    [][\A r \in Requests :
          /\ C33_Returns(r)
                => \/ C33_WentOn(r)
                   \/ /\ reqs[r].pc = "cacheUpdate"
                      /\ RequestKey(r) \in DOMAIN store
                      /\ store' = [store EXCEPT ![RequestKey(r)] = TouchDoc(@, now)]
                      /\ reqs'[r].pc = "done"
                      /\ reqs'[r].status = 200
                      /\ reqs'[r].body.cached
          /\ (C33_Returns(r) /\ store' = store /\ reqs[r].pc # "cacheGet")
                => C33_WentOn(r) /\ reqs'[r].cachedTranslation = Null]_vars

\* a request found a fresh entry, the access update failed, and the request
\* was answered with the translation inference made
C33_Witness ==
    \E r \in Requests :
        /\ reqs[r].found # Null
        /\ ~StoreExpired(reqs[r].found, reqs[r].readAt)
        /\ ~Touched(r)
        /\ reqs[r].pc = "done"
        /\ reqs[r].status = 200
        /\ ~reqs[r].body.cached

\* the caller of translateMessage is neither the customer nor the driver of
\* the room
C35_Stranger == treq.pc # "idle" /\ treq.userId \notin {RoomData.customerId, RoomData.driverId}

\* what no request of a stranger does: it gets no translation, it starts no
\* translate call, and it is not answered 200
C35_NothingForAStranger ==
    C35_Stranger
        => /\ calls[MessageSlot] = IdleCall
           /\ treq.translation = Null
           /\ treq.pc \notin {"translating", "update"}
           /\ "translation" \notin DOMAIN treq.body
           /\ treq.status # 200

\* no step of a stranger's request writes the message document
C35_NoWrite == (C35_Stranger /\ treq' # treq) => message' = message

C32_CallsTerminate ==
    \A c \in Slots : (calls[c].pc \in {"calling", "sleeping"}) ~> CallSettled(calls[c])

\* no translate call makes more than maxRetries + 1 inference attempts
C32_AttemptsBounded == [](\A c \in Slots : calls[c].invoked <= maxRetries + 1)

\* every translateBatch call that was started settles
C32_BatchTerminates == (batch.pc = "running") ~> (batch.pc \in {"resolved", "rejected"})

\* C32 (SpecBatchLive): when every provider call eventually returns or
\* fails, every translate call terminates after at most maxRetries + 1
\* inference attempts, and every translateBatch call terminates with the
\* pending queue empty, whatever maxRetries, retryDelay and maxConcurrent.
C32_TerminatesWithEmptyQueue ==
    /\ C32_CallsTerminate
    /\ C32_AttemptsBounded
    /\ C32_BatchTerminates
    /\ [](batch.pc \in {"resolved", "rejected"} => Len(batch.queue) = 0)

\* C36 (SpecPush): when the send failed with
\* messaging/invalid-registration-token or
\* messaging/registration-token-not-registered, onNewChatMessage has removed
\* the fcmToken field from the receiver's user document when it returns, and
\* it returns success: false without throwing.
C36_InvalidTokenIsRemoved ==
    (push.pc = "done" /\ push.error \in InvalidTokenCodes)
        => /\ users.fcmToken = ""
           /\ "success" \in DOMAIN push.returned
           /\ push.returned.success = FALSE

\* the retry loop of the call was entered
C37_InLoop(call) == call.invoked > 0

\* two calls are at the same point of their loops, with the same history
C37_Alike(a, b) ==
    /\ a.pc = b.pc
    /\ a.attempt = b.attempt
    /\ a.invoked = b.invoked
    /\ a.fails = b.fails
    /\ a.sleeps = b.sleeps
    /\ a.pc = "thrown"
          => /\ a.outcome.kind = "error" /\ b.outcome.kind = "error"
             /\ a.outcome.attempts = maxRetries + 1
             /\ b.outcome.attempts = maxRetries + 1
             /\ a.invoked = maxRetries + 1
    /\ a.pc = "returned" => (a.outcome.kind # "error" /\ b.outcome.kind # "error")

\* C37 (SpecRetry): for the same provider failures and successes and the
\* same maxRetries and retryDelay, the retry loops of transcribe and of
\* generateSpeech are where the one of translate is: the same number of
\* attempts made, the same backoff delays slept in the same order, and the
\* same outcome, a value returned or the rejection after maxRetries + 1
\* attempts.
C37_LoopsBehaveAlike ==
    \A c \in {SttSlot, TtsSlot} :
        (C37_InLoop(calls[DirectSlot]) /\ C37_InLoop(calls[c]))
            => C37_Alike(calls[DirectSlot], calls[c])

\* the three loops have failed maxRetries + 1 times, after at least two sleeps
C37_Witness ==
    /\ \A c \in {DirectSlot, SttSlot, TtsSlot} :
          calls[c].pc = "thrown" /\ calls[c].invoked = maxRetries + 1
    /\ Len(calls[SttSlot].sleeps) >= 2
    /\ calls[TtsSlot].sleeps = calls[DirectSlot].sleeps

\* what a request can cause: a provider call, a cache write, a write of the
\* message document
C34_Effects ==
    {"inference", "transcription", "speech", "memoryWrite", "durableWrite",
     "durableTouch", "durableDelete", "messageWrite"}

C34_ClientError(status) == status >= 400 /\ status <= 499

\* the method, the credentials and the parameters of request r are valid
C34_Valid(req) ==
    /\ req.method = "POST"
    /\ req.endpoint # "tts" => req.auth = "ok"
    /\ CASE req.endpoint = "translate" ->
                Len(req.text) > 0 /\ req.targetLang \in supportedLanguages
         [] req.endpoint = "sttAndTranslate" ->
                /\ req.form.multipart /\ req.form.audio
                /\ req.form.sourceLang \in sttSupportedLanguages
                /\ req.form.targetLang \in sttSupportedLanguages
         [] req.endpoint = "stt" ->
                /\ req.form.multipart /\ req.form.audio
                /\ req.form.language \in supportedLanguages
         [] OTHER ->
                /\ Len(req.text) > 0 /\ Len(req.text) <= MaxSpeechLength
                /\ req.targetLang \in supportedLanguages

C34_ValidMessageRequest ==
    /\ treq.method = "POST"
    /\ treq.auth = "ok"
    /\ TruthyLang(treq.targetLang)
    /\ treq.messageExists /\ treq.roomExists
    /\ isMember(RoomData, treq.userId)

\* a request answered 4xx has caused nothing, and what a request has caused
\* comes after its validation
C34_State ==
    /\ \A r \in Requests :
          /\ C34_ClientError(reqs[r].status)
                => Events(r) \cap C34_Effects = {} /\ calls[r].invoked = 0
          /\ Events(r) \cap C34_Effects # {} => C34_Valid(reqs[r])
    /\ C34_ClientError(treq.status)
          => Elements(treq.trace) \cap C34_Effects = {} /\ calls[MessageSlot].invoked = 0
    /\ (Elements(treq.trace) \cap C34_Effects # {} \/ treq.pc \in {"translating", "update"})
          => C34_ValidMessageRequest

\* the step that answers 4xx writes neither a cache nor the message document
C34_Step ==
    (\/ \E r \in Requests : reqs[r].status = 0 /\ C34_ClientError(reqs'[r].status)
     \/ treq.status = 0 /\ C34_ClientError(treq'.status))
        => store' = store /\ cache' = cache /\ message' = message

\* C34 (SpecGateway): a request that translate, stt, sttAndTranslate, tts or
\* translateMessage answers with a 4xx status has caused no provider call,
\* no cache write and no write of the message document; the method, the
\* credentials and the parameters of a request that caused one of these
\* were validated before.
C34_ClientErrorsCauseNothing == [](C34_State) /\ [][C34_Step]_vars

\* after a request has written the durable cache, tts has refused a text
\* that is too long and translateMessage a translation into the language of
\* the message
C34_Witness ==
    /\ store # EmptyMap
    /\ \E r \in Requests :
          /\ reqs[r].endpoint = "tts"
          /\ reqs[r].status = 400
          /\ Len(reqs[r].text) > MaxSpeechLength

\* translateMessage has answered 400 because translate returned null
C34_WitnessSkipped ==
    /\ treq.pc = "done"
    /\ treq.status = 400
    /\ treq.messageData # Null
    /\ treq.roomData # Null

====
